---- MODULE Spec2Model ----
(***************************************************************************)
(* dgt_parser: the orchestrator of src/main.rs, the inclusion predicates   *)
(* of src/tmx_parser.rs and the SQLite writer of                           *)
(* src/handlers/sqlite_db.rs, as one state machine (Spec).  Two functions  *)
(* are also called on their own: Handler::lang_code_to_db_column           *)
(* (SpecNormalize) and coerce_lang_codes of src/functions.rs (SpecCoerce). *)
(* SpecFaulty is the run of Spec with an SQLite that may refuse commits,   *)
(* and SpecScript drives the flat-script writer of src/handlers/sql.rs,    *)
(* which main does not create, on its own.                                 *)
(*                                                                         *)
(* Strings whose characters the code inspects (language codes, column      *)
(* names, bound parameter values) are sequences of one-character strings.  *)
(* Document names and property keys are only ever compared for equality    *)
(* and are plain strings.                                                  *)
(***************************************************************************)
EXTENDS Integers, Sequences, FiniteSets, TLC

(***************************************************************************)
(* Bounds of the model.                                                    *)
(***************************************************************************)
\* translation units read from the archives in one run
MaxUnits == 2
\* document entries (TMX files) opened in one run
MaxEntries == 2
\* largest value of the batch threshold that is explored
MaxTransactionSize == 2
\* longest language code a function is called with on its own
MaxCodeLen == 5

(***************************************************************************)
(* Characters and strings.                                                 *)
(***************************************************************************)
\* the ASCII letters: the k-th upper-case letter and its lower-case form
UpperAlphabet ==
  <<"A", "B", "C", "D", "E", "F", "G", "H", "I", "J", "K", "L", "M",
    "N", "O", "P", "Q", "R", "S", "T", "U", "V", "W", "X", "Y", "Z">>
LowerAlphabet ==
  <<"a", "b", "c", "d", "e", "f", "g", "h", "i", "j", "k", "l", "m",
    "n", "o", "p", "q", "r", "s", "t", "u", "v", "w", "x", "y", "z">>

UpperLetters == {UpperAlphabet[k] : k \in 1..Len(UpperAlphabet)}
LowerLetters == {LowerAlphabet[k] : k \in 1..Len(LowerAlphabet)}
Digits == {"0", "1", "2", "3", "4", "5", "6", "7", "8", "9"}

\* the lower-case form of every upper-case letter
LowerCaseOf ==
  [c \in UpperLetters |->
     LowerAlphabet[CHOOSE k \in 1..Len(UpperAlphabet) : UpperAlphabet[k] = c]]

\* u8::to_ascii_lowercase on one character
ToAsciiLowercaseChar(c) == IF c \in UpperLetters THEN LowerCaseOf[c] ELSE c

\* str::to_ascii_lowercase
ToAsciiLowercase(s) == [k \in 1..Len(s) |-> ToAsciiLowercaseChar(s[k])]

\* mutant of ReplaceDash: '-' and '_' are exchanged
ReplaceDash_Swap(s) ==
  [k \in 1..Len(s) |-> IF s[k] = "-" THEN "_" ELSE IF s[k] = "_" THEN "-" ELSE s[k]]

\* str::replace("-", "_")
ReplaceDash(s) == [k \in 1..Len(s) |-> IF s[k] = "-" THEN "_" ELSE s[k]]

\* the class \w of the regex crate, restricted to the alphabet of the model;
\* (\w|\d) is the same class
WordChars == UpperLetters \cup LowerLetters \cup Digits \cup {"_"}

\* Regex ^\w{2}(-|_)(\w|\d){2}$
LangCodeRegexIsMatch(s) ==
  /\ Len(s) = 5
  /\ s[1] \in WordChars
  /\ s[2] \in WordChars
  /\ s[3] \in {"-", "_"}
  /\ s[4] \in WordChars
  /\ s[5] \in WordChars

Range(s) == {s[k] : k \in 1..Len(s)}

\* Vec::contains
Contains(vec, x) == \E k \in 1..Len(vec) : vec[k] = x

DigitChar == <<"0", "1", "2", "3", "4", "5", "6", "7", "8", "9">>

RECURSIVE FormatNumber(_)
\* format!("{}", v) of a u32: its decimal digits
FormatNumber(n) ==
  IF n < 10 THEN <<DigitChar[n + 1]>>
  ELSE Append(FormatNumber(n \div 10), DigitChar[(n % 10) + 1])

\* format!("{}", v) of a String
FormatString(v) == v

DigitValue(c) == CHOOSE d \in 0..9 : DigitChar[d + 1] = c

LooksLikeInteger(text) == Len(text) > 0 /\ \A k \in 1..Len(text) : text[k] \in Digits

RECURSIVE TextToInteger(_)
TextToInteger(text) ==
  IF Len(text) = 0 THEN 0
  ELSE 10 * TextToInteger(SubSeq(text, 1, Len(text) - 1)) + DigitValue(text[Len(text)])

\* SQLite's INTEGER / NUMERIC column affinity applied to a bound TEXT value:
\* text that is a well-formed integer literal is stored as that integer,
\* any other text is stored unchanged
NumericAffinity(text) == IF LooksLikeInteger(text) THEN TextToInteger(text) ELSE text

\* usize as u32: the value modulo 2^32, which is the value itself for every
\* index below 2^32 (all indices of the model are)
AsU32(n) == n

(***************************************************************************)
(* The parsed data model (src/tmx_parser.rs).                              *)
(***************************************************************************)
DocNoKey == "Txt::Doc. No."

EN_GB == <<"E", "N", "-", "G", "B">>
PL_01 == <<"P", "L", "-", "0", "1">>
\* the same language as EN_GB for the database, another string for the parser
en_gb == <<"e", "n", "_", "g", "b">>
\* a <tuv> without lang attribute
NoLang == <<>>

Prop(key, value) == [key |-> key, value |-> value]
Tuv(lang, content) == [lang |-> lang, content |-> content]
TranslationUnit(props, segments) == [props |-> props, segments |-> segments]

\* The translation units a parsed body is made of.
Units ==
  { TranslationUnit(<<Prop("Txt::Other", "D2"), Prop(DocNoKey, "D1"), Prop(DocNoKey, "D2")>>,
                    <<Tuv(EN_GB, <<"1", "0">>), Tuv(PL_01, <<"b">>)>>),
    TranslationUnit(<<Prop(DocNoKey, "D2")>>, <<Tuv(en_gb, <<"a">>)>>),
    TranslationUnit(<<Prop(DocNoKey, "D2")>>,
                    <<Tuv(EN_GB, <<"a">>), Tuv(en_gb, <<"b">>), Tuv(EN_GB, <<>>)>>),
    TranslationUnit(<<Prop(DocNoKey, "D2")>>, <<Tuv(PL_01, <<"a">>), Tuv(NoLang, <<"b">>)>>),
    TranslationUnit(<<Prop("Txt::Other", "D1")>>, <<Tuv(EN_GB, <<"a">>)>>),
    TranslationUnit(<<Prop(DocNoKey, "D1")>>, <<>>) }

None == [some |-> FALSE]
Some(v) == [some |-> TRUE, value |-> v]

\* mutant of doc_name: the key of the property is not looked at
doc_name_AnyProp(tu) ==
  IF Len(tu.props) > 0 THEN Some(tu.props[1].value) ELSE None

\* TranslationUnit::doc_name
doc_name(tu) ==
  LET name_props == SelectSeq(tu.props, LAMBDA el : el.key = DocNoKey)
  IN  IF Len(name_props) > 0 THEN Some(name_props[1].value) ELSE None

(***************************************************************************)
(* Coercion of the language codes of the command line (src/functions.rs).  *)
(***************************************************************************)
\* the match of coerce_lang_code on the string matched; input is returned by
\* the last arm
CoercionMatch(matched, input) ==
  CASE matched = <<"e", "n">> -> <<"E", "N", "-", "G", "B">>
    [] matched = <<"p", "l">> -> <<"P", "L", "-", "0", "1">>
    [] matched = <<"d", "e">> -> <<"D", "E", "-", "D", "E">>
    [] matched = <<"d", "a">> -> <<"D", "A", "-", "0", "1">>
    [] matched = <<"e", "l">> -> <<"E", "L", "-", "0", "1">>
    [] matched = <<"e", "s">> -> <<"E", "S", "-", "E", "S">>
    [] matched = <<"f", "i">> -> <<"F", "I", "-", "0", "1">>
    [] matched = <<"f", "r">> -> <<"F", "R", "-", "F", "R">>
    [] matched = <<"i", "t">> -> <<"I", "T", "-", "I", "T">>
    [] matched = <<"n", "l">> -> <<"N", "L", "-", "N", "L">>
    [] matched = <<"p", "t">> -> <<"P", "T", "-", "P", "T">>
    [] matched = <<"s", "v">> -> <<"S", "V", "-", "S", "E">>
    [] matched = <<"l", "v">> -> <<"L", "V", "-", "0", "1">>
    [] matched = <<"c", "s">> -> <<"C", "S", "-", "0", "1">>
    [] matched = <<"e", "t">> -> <<"E", "T", "-", "0", "1">>
    [] matched = <<"h", "u">> -> <<"H", "U", "-", "0", "1">>
    [] matched = <<"s", "l">> -> <<"S", "L", "-", "0", "1">>
    [] matched = <<"l", "t">> -> <<"L", "T", "-", "0", "1">>
    [] matched = <<"m", "t">> -> <<"M", "T", "-", "0", "1">>
    [] matched = <<"s", "k">> -> <<"S", "K", "-", "0", "1">>
    [] matched = <<"r", "o">> -> <<"R", "O", "-", "R", "O">>
    [] matched = <<"b", "g">> -> <<"B", "G", "-", "0", "1">>
    [] matched = <<"h", "r">> -> <<"H", "R", "-", "H", "R">>
    [] matched = <<"g", "a">> -> <<"G", "A", "-", "I", "E">>
    [] OTHER -> input

\* mutant of coerce_lang_code: the input is matched as it is written
coerce_lang_code_CaseSensitive(input) == CoercionMatch(input, input)

\* coerce_lang_code
coerce_lang_code(input) == CoercionMatch(ToAsciiLowercase(input), input)

\* coerce_lang_codes
coerce_lang_codes(input) == [k \in 1..Len(input) |-> coerce_lang_code(input[k])]

(***************************************************************************)
(* RequestedLangs (src/types.rs) and the inclusion predicates.             *)
(***************************************************************************)
Unlimited == [kind |-> "Unlimited", langs |-> <<>>]
SomeOf(langs) == [kind |-> "Some", langs |-> langs]
Each(langs) == [kind |-> "Each", langs |-> langs]

\* the language lists a run is started with
RequestedLists == {<<>>, <<EN_GB>>, <<PL_01>>, <<EN_GB, PL_01>>}

Filters == {Unlimited} \cup {SomeOf(l) : l \in RequestedLists}
                       \cup {Each(l) : l \in RequestedLists}

\* mutant of SegmentLoop: the codes are compared in their column form
RECURSIVE SegmentLoop_Normalized(_, _, _)
SegmentLoop_Normalized(segments, k, lang) ==
  IF k > Len(segments) THEN FALSE
  ELSE IF ReplaceDash(ToAsciiLowercase(segments[k].lang))
            = ReplaceDash(ToAsciiLowercase(lang)) THEN TRUE
  ELSE SegmentLoop_Normalized(segments, k + 1, lang)

\* for segment in &self.segments { if &segment.lang == lang { return true } } false
RECURSIVE SegmentLoop(_, _, _)
SegmentLoop(segments, k, lang) ==
  IF k > Len(segments) THEN FALSE
  ELSE IF segments[k].lang = lang THEN TRUE
  ELSE SegmentLoop(segments, k + 1, lang)

\* mutant of EachFold: the accumulator is overwritten by each language
RECURSIVE EachFold_LastOnly(_, _, _, _)
EachFold_LastOnly(tu, langs, k, acc) ==
  IF k > Len(langs) THEN acc
  ELSE EachFold_LastOnly(tu, langs, k + 1, SegmentLoop(tu.segments, 1, langs[k]))

RECURSIVE EachFold(_, _, _, _)
EachFold(tu, langs, k, acc) ==
  IF k > Len(langs) THEN acc
  ELSE EachFold(tu, langs, k + 1,
                IF ~acc THEN FALSE ELSE SegmentLoop(tu.segments, 1, langs[k]))

\* mutant of contains_each_lang: one requested language is enough
contains_each_lang_AsAny(tu, langs) ==
  IF langs.kind = "Unlimited" THEN TRUE
  ELSE \E k \in 1..Len(langs.langs) : SegmentLoop(tu.segments, 1, langs.langs[k])

\* TranslationUnit::contains_each_lang
contains_each_lang(tu, langs) ==
  IF langs.kind = "Unlimited" THEN TRUE
  ELSE EachFold(tu, langs.langs, 1, TRUE)

\* mutant of AnyLoop: the loop returns after the first requested language
AnyLoop_FirstOnly(tu, langs, k) ==
  IF k > Len(langs) THEN FALSE
  ELSE SegmentLoop(tu.segments, 1, langs[k])

RECURSIVE AnyLoop(_, _, _)
AnyLoop(tu, langs, k) ==
  IF k > Len(langs) THEN FALSE
  ELSE IF SegmentLoop(tu.segments, 1, langs[k]) THEN TRUE
  ELSE AnyLoop(tu, langs, k + 1)

\* mutant of contains_any_lang: an empty list excludes nothing
contains_any_lang_EmptyIncludes(tu, langs) ==
  IF langs.kind = "Unlimited" \/ Len(langs.langs) = 0 THEN TRUE
  ELSE AnyLoop(tu, langs.langs, 1)

\* TranslationUnit::contains_any_lang
contains_any_lang(tu, langs) ==
  IF langs.kind = "Unlimited" THEN TRUE
  ELSE AnyLoop(tu, langs.langs, 1)

\* main: the two `if let` guards in front of handler.handle; TRUE when the
\* unit is forwarded to the handler
Forwarded(tu, langs) ==
  /\ (langs.kind = "Some" => contains_any_lang(tu, langs))
  /\ (langs.kind = "Each" => contains_each_lang(tu, langs))

(***************************************************************************)
(* The SQLite database behind rusqlite::Connection.                        *)
(***************************************************************************)
\* the fixed columns of translation_units; their letters are never inspected,
\* so each name is written as one symbol
ID == <<"id">>
DOCUMENT_ID == <<"document_id">>
SEQUENTIAL_NUMBER == <<"sequential_number">>
FixedColumns == {ID, DOCUMENT_ID, SEQUENTIAL_NUMBER}

\* the file before Connection::open.  faults is the number of commits SQLite
\* is going to refuse next (the disk is full, the file is locked), committed
\* and aborted are the histories of the transactions committed and of the
\* commits refused
NoConnection ==
  [open |-> FALSE, tables |-> {}, documents |-> <<>>, tu_columns |-> <<>>,
   translation_units |-> <<>>, committed |-> <<>>, faults |-> 0,
   aborted |-> <<>>]

\* an INTEGER PRIMARY KEY left out of an INSERT: one more than the largest rowid
NextRowId(rows) ==
  IF Len(rows) = 0 THEN 1
  ELSE 1 + (CHOOSE m \in {rows[k].id : k \in 1..Len(rows)} :
              \A k \in 1..Len(rows) : rows[k].id <= m)

\* DROP TABLE IF EXISTS translation_units
drop_table_if_exists(c) ==
  [c EXCEPT !.tables = @ \ {"translation_units"}, !.tu_columns = <<>>,
            !.translation_units = <<>>]

\* CREATE TABLE IF NOT EXISTS translation_units (...); CREATE TABLE IF NOT
\* EXISTS documents (...)
set_up_schema(c) ==
  [c EXCEPT !.tables = @ \cup {"translation_units", "documents"}]

\* SQLite refuses to add a column whose name the table already has, and a
\* name that starts with a digit is no identifier ("unrecognized token")
CanAddColumn(c, column) ==
  /\ column \notin FixedColumns
  /\ ~Contains(c.tu_columns, column)
  /\ Len(column) > 0
  /\ column[1] \notin Digits

\* mutant of AlterTableAddColumn: the new column takes the place of the
\* language columns the table had
AlterTableAddColumn_Replace(c, column) == [c EXCEPT !.tu_columns = <<column>>]

\* ALTER TABLE translation_units ADD COLUMN <column>
AlterTableAddColumn(c, column) == [c EXCEPT !.tu_columns = Append(@, column)]

\* INSERT INTO documents (name) VALUES (?)
InsertIntoDocuments(c, name) ==
  [c EXCEPT !.documents = Append(@, [id |-> NextRowId(@), name |-> name])]

\* mutant of SelectDocumentId: the query has no WHERE clause
SelectDocumentId_AnyName(c, name) == c.documents[1].id

\* SELECT id FROM documents WHERE name = ?  (query_row: the first row)
SelectDocumentId(c, name) ==
  LET k == CHOOSE k \in 1..Len(c.documents) :
             /\ c.documents[k].name = name
             /\ \A j \in 1..(k - 1) : c.documents[j].name # name
  IN  c.documents[k].id

\* the position of the first occurrence of column in an INSERT's column list
FirstIndex(columns, column) ==
  CHOOSE k \in 1..Len(columns) :
    /\ columns[k] = column
    /\ \A j \in 1..(k - 1) : columns[j] # column

\* the value an INSERT stores in a column it names: SQLite takes the value of
\* the first occurrence of the column in the column list
InsertedValue(query, column) == query.values[FirstIndex(query.columns, column)]

\* INTEGER / NUMERIC affinity on the value an INSERT gives a fixed column;
\* a column the statement does not name is NULL
NumberColumn(query, column) ==
  IF column \in Range(query.columns)
  THEN Some(NumericAffinity(InsertedValue(query, column)))
  ELSE None

\* SQLite prepares an INSERT only when the table and every named column exist
CanExecuteInsert(c, query) ==
  /\ "translation_units" \in c.tables
  /\ Range(query.columns) \subseteq FixedColumns \cup Range(c.tu_columns)

\* the row one INSERT INTO translation_units (<columns>) VALUES (?,..) stores:
\* the language columns have no declared type and keep the bound text as it
\* is; a language column the statement does not name is NULL (absent from
\* cells)
InsertedRow(c, query) ==
  [id |-> NextRowId(c.translation_units),
   document_id |-> NumberColumn(query, DOCUMENT_ID),
   sequential_number |-> NumberColumn(query, SEQUENTIAL_NUMBER),
   cells |-> [column \in Range(query.columns) \ FixedColumns |->
                InsertedValue(query, column)]]

\* tx.execute(&query.0, query.1.clone()) on a statement SQLite accepts
ExecuteInsert(c, query) ==
  [c EXCEPT !.translation_units = Append(@, InsertedRow(c, query))]

\* tx.commit() of a transaction of n statements: the database keeps, in
\* committed, the number of statements of every transaction committed so far
TxCommit(c, n) == [c EXCEPT !.committed = Append(@, n)]

\* SQLite refuses the next commit on the connection
TxCommitFails(c) == c.faults > 0

\* tx.commit() returned an error and tx is dropped: the transaction of n
\* statements is rolled back, the database is as it was before it; aborted
\* keeps the size of the transaction and the number of transactions
\* committed before it
TxRollback(c, n) ==
  [c EXCEPT !.faults = @ - 1,
            !.aborted = Append(@, [size |-> n, after |-> Len(c.committed)])]

(***************************************************************************)
(* The writer (src/handlers/sqlite_db.rs).  A handler value h is a record  *)
(* of the fields of struct Handler; an operation that can fail returns     *)
(* [ok, h, ...] with the handler as the operation left it.                 *)
(***************************************************************************)
VARIABLES
  output_file_exists,      \* Path::exists(output_file) when the run starts
  TRANSACTION_SIZE,        \* the batch threshold of this build
  requested_langs,         \* main's requested_langs, cloned into the handler
  conn,                    \* Handler.conn and the database behind it
  language_columns_in_db,  \* Handler.language_columns_in_db
  docs_in_db,              \* Handler.docs_in_db
  queries,                 \* Handler.queries
  valid_lang_codes,        \* Handler.valid_lang_codes
  pc,                      \* where main is
  tmx_files_parsed,        \* main's counter of the entries opened
  i,                       \* the enumerate() index in the current body
  log,                     \* history: one record per translation unit read
  parsed,                  \* history: for every entry opened, whether parse_tmx
                           \* returned Ok
  call,                    \* a function of the crate called on its own: its
                           \* input and, once it returned, its result
  sql_handler              \* the Handler of src/handlers/sql.rs driven on its
                           \* own: its fields and the script it has written

vars ==
  <<output_file_exists, TRANSACTION_SIZE, requested_langs, conn,
    language_columns_in_db, docs_in_db, queries, valid_lang_codes, pc,
    tmx_files_parsed, i, log, parsed, call, sql_handler>>

\* the handler as a value
Handler ==
  [conn |-> conn, language_columns_in_db |-> language_columns_in_db,
   docs_in_db |-> docs_in_db, queries |-> queries,
   valid_lang_codes |-> valid_lang_codes, requested_langs |-> requested_langs]

\* mutant of lang_is_eligible: the writer ignores the requested languages
lang_is_eligible_Always(h, lang_code) == TRUE

\* Handler::lang_is_eligible
lang_is_eligible(h, lang_code) ==
  IF h.requested_langs.kind = "Unlimited" THEN TRUE
  ELSE Contains(h.requested_langs.langs, lang_code)

\* lang_code.to_ascii_lowercase().replace("-", "_")
NormalizeLangCode(lang_code) == ReplaceDash(ToAsciiLowercase(lang_code))

\* Handler::lang_code_to_db_column on the lowercased code lc
ValidatedColumn(h, lc) ==
  IF Contains(h.valid_lang_codes, lc)
  THEN [ok |-> TRUE, h |-> h, column |-> lc]
  ELSE IF LangCodeRegexIsMatch(lc)
  THEN [ok |-> TRUE, h |-> [h EXCEPT !.valid_lang_codes = Append(@, lc)],
        column |-> lc]
  ELSE [ok |-> FALSE, h |-> h]

\* Handler::lang_code_to_db_column
lang_code_to_db_column(h, lang_code) ==
  ValidatedColumn(h, NormalizeLangCode(lang_code))

\* lang_code_to_db_column of the flat-script writer (src/handlers/sql.rs)
sql_lang_code_to_db_column(lang_code) == ReplaceDash(ToAsciiLowercase(lang_code))

\* mutant of add_lang_column: the new column is not recorded in the registry
add_lang_column_NotRecorded(h, column) ==
  IF CanAddColumn(h.conn, column)
  THEN [ok |-> TRUE, h |-> [h EXCEPT !.conn = AlterTableAddColumn(@, column)]]
  ELSE [ok |-> FALSE, h |-> h]

\* Handler::add_lang_column; the expect panics when SQLite refuses
add_lang_column(h, column) ==
  IF CanAddColumn(h.conn, column)
  THEN [ok |-> TRUE,
        h |-> [h EXCEPT !.conn = AlterTableAddColumn(@, column),
                        !.language_columns_in_db = Append(@, column)]]
  ELSE [ok |-> FALSE, h |-> h]

\* self.docs_in_db.insert(doc_name, id) with the id read back from the table c
CacheDocumentId(h, c, name) ==
  [h EXCEPT !.conn = c,
            !.docs_in_db = (name :> SelectDocumentId(c, name)) @@ @]

\* mutant of InsertDocumentNamed: the cache is not consulted
InsertDocumentNamed_NoCache(h, name) ==
  IF name.some
  THEN CacheDocumentId(h, InsertIntoDocuments(h.conn, name.value), name.value)
  ELSE h

\* the body of insert_document for the name doc_name() returned
InsertDocumentNamed(h, name) ==
  IF name.some /\ name.value \notin DOMAIN h.docs_in_db
  THEN CacheDocumentId(h, InsertIntoDocuments(h.conn, name.value), name.value)
  ELSE h

\* Handler::insert_document
insert_document(h, tu) == InsertDocumentNamed(h, doc_name(tu))

\* the value pushed into insert_map for one eligible segment
SegmentValue(el) == FormatString(el.content)

RECURSIVE SegmentsToInsertMap(_, _, _, _)

\* mutant of PushSegment: insert_map is keyed by the column, and a later
\* segment of a column overwrites the value of an earlier one
PushSegment_Overwrite(a, column, segments, k, insert_map) ==
  IF ~a.ok THEN [ok |-> FALSE, h |-> a.h]
  ELSE SegmentsToInsertMap(
         a.h, segments, k + 1,
         IF \E n \in 1..Len(insert_map) : insert_map[n].column = column
         THEN [n \in 1..Len(insert_map) |->
                 IF insert_map[n].column = column
                 THEN [column |-> column, value |-> SegmentValue(segments[k])]
                 ELSE insert_map[n]]
         ELSE Append(insert_map,
                     [column |-> column, value |-> SegmentValue(segments[k])]))

\* insert_map.push(..) after the column a.h has for segment k, then the rest
PushSegment(a, column, segments, k, insert_map) ==
  IF ~a.ok THEN [ok |-> FALSE, h |-> a.h]
  ELSE SegmentsToInsertMap(
         a.h, segments, k + 1,
         Append(insert_map,
                [column |-> column, value |-> SegmentValue(segments[k])]))

\* if !self.language_columns_in_db.contains(&lang_code) { add_lang_column }
EnsureColumn(r, segments, k, insert_map) ==
  IF ~r.ok THEN [ok |-> FALSE, h |-> r.h]
  ELSE PushSegment(IF Contains(r.h.language_columns_in_db, r.column)
                   THEN [ok |-> TRUE, h |-> r.h]
                   ELSE add_lang_column(r.h, r.column),
                   r.column, segments, k, insert_map)

\* mutant of SegmentsToInsertMap: the code of a segment is validated before
\* the segment's eligibility is looked at
SegmentsToInsertMap_ValidateFirst(h, segments, k, insert_map) ==
  IF k > Len(segments) THEN [ok |-> TRUE, h |-> h, insert_map |-> insert_map]
  ELSE IF ~lang_code_to_db_column(h, segments[k].lang).ok
  THEN [ok |-> FALSE, h |-> h]
  ELSE IF ~lang_is_eligible(h, segments[k].lang)
  THEN SegmentsToInsertMap(h, segments, k + 1, insert_map)
  ELSE EnsureColumn(lang_code_to_db_column(h, segments[k].lang),
                    segments, k, insert_map)

\* the loop over tu.segments of create_translation_unit_insert_query, from
\* segment k on
SegmentsToInsertMap(h, segments, k, insert_map) ==
  IF k > Len(segments) THEN [ok |-> TRUE, h |-> h, insert_map |-> insert_map]
  ELSE IF ~lang_is_eligible(h, segments[k].lang)
  THEN SegmentsToInsertMap(h, segments, k + 1, insert_map)
  ELSE EnsureColumn(lang_code_to_db_column(h, segments[k].lang),
                    segments, k, insert_map)

\* columns and values of the finished insert_map
QueryOf(insert_map) ==
  [columns |-> [k \in 1..Len(insert_map) |-> insert_map[k].column],
   values |-> [k \in 1..Len(insert_map) |-> insert_map[k].value]]

\* the end of create_translation_unit_insert_query: sequential_number and
\* document_id are pushed after the segments; the unwrap of the cache lookup
\* panics for a name that is not cached
FinishInsertMap(r, name, sequential_number_in_doc) ==
  IF ~r.ok THEN [ok |-> FALSE, h |-> r.h]
  ELSE IF name \notin DOMAIN r.h.docs_in_db THEN [ok |-> FALSE, h |-> r.h]
  ELSE [ok |-> TRUE, h |-> r.h,
        query |->
          QueryOf(r.insert_map \o
                  << [column |-> SEQUENTIAL_NUMBER,
                      value |-> FormatNumber(sequential_number_in_doc)],
                     [column |-> DOCUMENT_ID,
                      value |-> FormatNumber(r.h.docs_in_db[name])] >>)]

\* Handler::create_translation_unit_insert_query
create_translation_unit_insert_query(h, tu, sequential_number_in_doc) ==
  IF ~doc_name(tu).some THEN [ok |-> FALSE, h |-> h]
  ELSE FinishInsertMap(SegmentsToInsertMap(h, tu.segments, 1, <<>>),
                       doc_name(tu).value, sequential_number_in_doc)

\* the loop of commit_translation_units inside the transaction, from query k on
RECURSIVE ExecuteQueries(_, _, _)
ExecuteQueries(c, batch, k) ==
  IF k > Len(batch) THEN [ok |-> TRUE, conn |-> c]
  ELSE IF CanExecuteInsert(c, batch[k])
  THEN ExecuteQueries(ExecuteInsert(c, batch[k]), batch, k + 1)
  ELSE [ok |-> FALSE, conn |-> c]

\* mutant of CommitTransaction: self.queries.clear() is forgotten
CommitTransaction_NoClear(h, tx) ==
  IF ~tx.ok THEN [ok |-> FALSE, h |-> h]
  ELSE IF TxCommitFails(tx.conn)
  THEN [ok |-> FALSE, h |-> [h EXCEPT !.conn = TxRollback(@, Len(h.queries))]]
  ELSE [ok |-> TRUE, h |-> [h EXCEPT !.conn = TxCommit(tx.conn, Len(h.queries))]]

\* mutant of CommitTransaction: the statements run on the connection outside
\* a transaction, so a refused commit leaves their rows in the table
CommitTransaction_NoRollback(h, tx) ==
  IF ~tx.ok THEN [ok |-> FALSE, h |-> h]
  ELSE IF TxCommitFails(tx.conn)
  THEN [ok |-> FALSE, h |-> [h EXCEPT !.conn = TxRollback(tx.conn, Len(h.queries))]]
  ELSE [ok |-> TRUE,
        h |-> [h EXCEPT !.conn = TxCommit(tx.conn, Len(h.queries)),
                        !.queries = <<>>]]

\* tx.commit() and self.queries.clear(); an error before that (a statement
\* SQLite does not accept, a commit it refuses) is returned with `?`: the
\* transaction is rolled back when tx is dropped and the batch stays as it was
CommitTransaction(h, tx) ==
  IF ~tx.ok THEN [ok |-> FALSE, h |-> h]
  ELSE IF TxCommitFails(tx.conn)
  THEN [ok |-> FALSE, h |-> [h EXCEPT !.conn = TxRollback(@, Len(h.queries))]]
  ELSE [ok |-> TRUE,
        h |-> [h EXCEPT !.conn = TxCommit(tx.conn, Len(h.queries)),
                        !.queries = <<>>]]

\* mutant of commit_translation_units: a commit of an empty batch is an error
commit_translation_units_EmptyFails(h) ==
  IF h.queries = <<>> THEN [ok |-> FALSE, h |-> h]
  ELSE CommitTransaction(h, ExecuteQueries(h.conn, h.queries, 1))

\* Handler::commit_translation_units
commit_translation_units(h) ==
  CommitTransaction(h, ExecuteQueries(h.conn, h.queries, 1))

\* if self.queries.len() > TRANSACTION_SIZE
BatchIsFull(batch) == Len(batch) > TRANSACTION_SIZE

\* the end of handle_translation_unit, with the batch already extended
CommitIfFull(h) ==
  IF BatchIsFull(h.queries) THEN commit_translation_units(h)
  ELSE [ok |-> TRUE, h |-> h]

\* mutant of PushQuery: the query is put in front of the batch
PushQuery_Prepend(q) ==
  IF ~q.ok THEN [ok |-> FALSE, h |-> q.h]
  ELSE CommitIfFull([q.h EXCEPT !.queries = <<q.query>> \o @])

\* self.queries.push(query) for the result q of the query construction
PushQuery(q) ==
  IF ~q.ok THEN [ok |-> FALSE, h |-> q.h]
  ELSE CommitIfFull([q.h EXCEPT !.queries = Append(@, q.query)])

\* Handler::handle_translation_unit
handle_translation_unit(h, tu, sequential_number_in_doc) ==
  PushQuery(create_translation_unit_insert_query(
              insert_document(h, tu), tu, sequential_number_in_doc))

\* mutant of drop: the handler is dropped without a commit
drop_WithoutCommit(h) == h

\* Drop for Handler; the unwrap of a failed commit leaves the handler as it is
drop(h) == commit_translation_units(h).h

(***************************************************************************)
(* The run (src/main.rs).                                                  *)
(***************************************************************************)
\* no function is called on its own during a run of main
NoCall == [fn |-> "none"]

\* main creates no Handler of src/handlers/sql.rs: the fields of such a
\* handler, none created.  state is where the handler is in its life,
\* file_exists is Path::exists(file_path) before it is created, handled counts
\* the calls of handle, and inserts_file is the text of the file, statement by
\* statement
NoSqlHandler ==
  [state |-> "none", file_exists |-> FALSE, INSERT_SIZE |-> 1, handled |-> 0,
   incoming_batch |-> <<>>, langs_in_batch |-> <<>>, lang_columns |-> <<>>,
   inserts_file |-> <<>>]

SetHandler(h) ==
  /\ conn' = h.conn
  /\ language_columns_in_db' = h.language_columns_in_db
  /\ docs_in_db' = h.docs_in_db
  /\ queries' = h.queries
  /\ valid_lang_codes' = h.valid_lang_codes

Init ==
  /\ output_file_exists \in BOOLEAN
  /\ TRANSACTION_SIZE \in 1..MaxTransactionSize
  /\ requested_langs \in Filters
  /\ conn = NoConnection
  /\ language_columns_in_db = <<>>
  /\ docs_in_db = <<>>
  /\ queries = <<>>
  /\ valid_lang_codes = <<>>
  /\ pc = "init_handler"
  /\ tmx_files_parsed = 0
  /\ i = 0
  /\ log = <<>>
  /\ parsed = <<>>
  /\ call = NoCall
  /\ sql_handler = NoSqlHandler

\* Handler::new after Connection::open: the fields of a new handler, then setup()
HandlerNew ==
  [conn |-> set_up_schema(drop_table_if_exists([conn EXCEPT !.open = TRUE])),
   language_columns_in_db |-> <<>>, docs_in_db |-> <<>>, queries |-> <<>>,
   valid_lang_codes |-> <<>>, requested_langs |-> requested_langs]

\* mutant of InitHandler: the connection is opened and the handler created
\* before the path is looked at
InitHandler_OpenFirst ==
  /\ pc = "init_handler"
  /\ pc' = IF output_file_exists THEN "failed" ELSE "for_each_tmx_file"
  /\ SetHandler(HandlerNew)
  /\ UNCHANGED <<output_file_exists, TRANSACTION_SIZE, requested_langs,
                 tmx_files_parsed, i, log, parsed, call,
                 sql_handler>>

\* init_handler
InitHandler ==
  /\ pc = "init_handler"
  /\ IF output_file_exists
     THEN /\ pc' = "failed"
          /\ UNCHANGED <<conn, language_columns_in_db, docs_in_db, queries,
                         valid_lang_codes>>
     ELSE /\ pc' = "for_each_tmx_file"
          /\ SetHandler(HandlerNew)
  /\ UNCHANGED <<output_file_exists, TRANSACTION_SIZE, requested_langs,
                 tmx_files_parsed, i, log, parsed, call,
                 sql_handler>>

\* mutant of ParseEntry: an entry that does not parse is skipped
ParseEntry_SkipOnError ==
  /\ pc = "for_each_tmx_file"
  /\ tmx_files_parsed < MaxEntries
  /\ tmx_files_parsed' = tmx_files_parsed + 1
  /\ \E ok \in BOOLEAN :
       /\ parsed' = Append(parsed, ok)
       /\ pc' = IF ok THEN "translation_units" ELSE "for_each_tmx_file"
       /\ i' = IF ok THEN 0 ELSE i
  /\ UNCHANGED <<output_file_exists, TRANSACTION_SIZE, requested_langs, conn,
                 language_columns_in_db, docs_in_db, queries, valid_lang_codes,
                 log, call,
                 sql_handler>>

\* mutant of ParseEntry: the index of the units is not reset for a new body
ParseEntry_IndexNotReset ==
  /\ pc = "for_each_tmx_file"
  /\ tmx_files_parsed < MaxEntries
  /\ tmx_files_parsed' = tmx_files_parsed + 1
  /\ \E ok \in BOOLEAN :
       /\ parsed' = Append(parsed, ok)
       /\ IF ok
          THEN /\ pc' = "translation_units"
               /\ UNCHANGED <<conn, language_columns_in_db, docs_in_db, queries,
                              valid_lang_codes>>
          ELSE /\ pc' = "failed"
               /\ SetHandler(drop(Handler))
  /\ UNCHANGED <<output_file_exists, TRANSACTION_SIZE, requested_langs, i, log,
                 call,
                 sql_handler>>

\* the callback of for_each_tmx_file_in_zip up to the loop over the body: count
\* the entry, decode and parse it; an error is returned with `?` through both
\* callbacks and main, and the handler is dropped on the way out
ParseEntry ==
  /\ pc = "for_each_tmx_file"
  /\ tmx_files_parsed < MaxEntries
  /\ tmx_files_parsed' = tmx_files_parsed + 1
  /\ \E ok \in BOOLEAN :
       /\ parsed' = Append(parsed, ok)
       /\ IF ok
          THEN /\ pc' = "translation_units"
               /\ i' = 0
               /\ UNCHANGED <<conn, language_columns_in_db, docs_in_db, queries,
                              valid_lang_codes>>
          ELSE /\ pc' = "failed"
               /\ i' = i
               /\ SetHandler(drop(Handler))
  /\ UNCHANGED <<output_file_exists, TRANSACTION_SIZE, requested_langs, log, call,
                 sql_handler>>

\* the index enumerate() gives the next unit of the body
NextIndex(index) == index + 1

\* mutant of SequenceNumber: the numbering starts at one
SequenceNumber_OneBased(index) == AsU32(index + 1)

\* the sequence number main hands to the handler for the unit at index
SequenceNumber(index) == AsU32(index)

LogRecord(tu, forwarded, ok) ==
  [entry |-> tmx_files_parsed, tu |-> tu, seq |-> SequenceNumber(i),
   forwarded |-> forwarded, ok |-> ok]

\* one iteration of the loop over body.translation_units: the filter, then
\* handler.handle; the unwrap in handle panics on an error, and unwinding drops
\* the handler
ProcessUnit ==
  /\ pc = "translation_units"
  /\ Len(log) < MaxUnits
  /\ \E tu \in Units :
       IF ~Forwarded(tu, requested_langs)
       THEN /\ log' = Append(log, LogRecord(tu, FALSE, TRUE))
            /\ pc' = pc
            /\ UNCHANGED <<conn, language_columns_in_db, docs_in_db, queries,
                           valid_lang_codes>>
       ELSE \E r \in {handle_translation_unit(Handler, tu, SequenceNumber(i))} :
                /\ log' = Append(log, LogRecord(tu, TRUE, r.ok))
                /\ IF r.ok
                   THEN /\ pc' = pc
                        /\ SetHandler(r.h)
                   ELSE /\ pc' = "failed"
                        /\ SetHandler(drop(r.h))
  /\ i' = NextIndex(i)
  /\ UNCHANGED <<output_file_exists, TRANSACTION_SIZE, requested_langs,
                 tmx_files_parsed, parsed, call,
                 sql_handler>>

\* the body is exhausted: the callback returns Ok(())
EndOfBody ==
  /\ pc = "translation_units"
  /\ pc' = "for_each_tmx_file"
  /\ UNCHANGED <<output_file_exists, TRANSACTION_SIZE, requested_langs, conn,
                 language_columns_in_db, docs_in_db, queries, valid_lang_codes,
                 tmx_files_parsed, i, log, parsed, call,
                 sql_handler>>

\* for_each_zip returned Ok(()) and the caller commits the batch itself
\* (handler.commit_translation_units().unwrap(), as the setup of the writer's
\* tests does after the loop); the unwrap panics on an error, and unwinding
\* drops the handler
Flush ==
  /\ pc = "for_each_tmx_file"
  /\ \E r \in {commit_translation_units(Handler)} :
         IF r.ok
         THEN /\ pc' = "flushed"
              /\ SetHandler(r.h)
         ELSE /\ pc' = "failed"
              /\ SetHandler(drop(r.h))
  /\ UNCHANGED <<output_file_exists, TRANSACTION_SIZE, requested_langs,
                 tmx_files_parsed, i, log, parsed, call,
                 sql_handler>>

\* for_each_zip returned Ok(()): the caller returns and the handler goes out
\* of scope, flushed by the caller or not
Finish ==
  /\ pc \in {"for_each_tmx_file", "flushed"}
  /\ \E r \in {commit_translation_units(Handler)} :
         /\ pc' = IF r.ok THEN "done" ELSE "failed"
         /\ SetHandler(r.h)
  /\ UNCHANGED <<output_file_exists, TRANSACTION_SIZE, requested_langs,
                 tmx_files_parsed, i, log, parsed, call,
                 sql_handler>>

(***************************************************************************)
(* Handler::lang_code_to_db_column called on its own, on a new handler and   *)
(* then again on the same handler with the column it returned.              *)
(***************************************************************************)
\* the characters of the language codes the function is called with
CodeChars == {"E", "-", "_"}

\* every string of CodeChars of at most MaxCodeLen characters
Codes == UNION {[1..n -> CodeChars] : n \in 0..MaxCodeLen}

\* no run of main: the variables of main at rest, with the connection c
AtRest(c) ==
  /\ output_file_exists = FALSE
  /\ TRANSACTION_SIZE = 1
  /\ requested_langs = Unlimited
  /\ conn = c
  /\ language_columns_in_db = <<>>
  /\ docs_in_db = <<>>
  /\ queries = <<>>
  /\ valid_lang_codes = <<>>
  /\ pc = "call"
  /\ tmx_files_parsed = 0
  /\ i = 0
  /\ log = <<>>
  /\ parsed = <<>>

\* a call that has not returned yet
Calling(fn, arg, n) == [fn |-> fn, arg |-> arg, n |-> n, returned |-> FALSE]

\* the call has returned result
Returned(c, result) == [c EXCEPT !.returned = TRUE] @@ [result |-> result]

\* the database of a handler as Handler::new leaves it
NewDatabase ==
  set_up_schema(drop_table_if_exists([NoConnection EXCEPT !.open = TRUE]))

InitNormalize ==
  /\ AtRest(NewDatabase)
  /\ sql_handler = NoSqlHandler
  /\ \E code \in Codes : call = Calling("lang_code_to_db_column", code, 1)

\* self.lang_code_to_db_column(arg): Ok(column) is Some(column), Err is None
CallLangCodeToDbColumn ==
  /\ call.fn = "lang_code_to_db_column"
  /\ ~call.returned
  /\ \E r \in {lang_code_to_db_column(Handler, call.arg)} :
       /\ valid_lang_codes' = r.h.valid_lang_codes
       /\ call' = Returned(call, IF r.ok THEN Some(r.column) ELSE None)
  /\ UNCHANGED <<output_file_exists, TRANSACTION_SIZE, requested_langs, conn,
                 language_columns_in_db, docs_in_db, queries, pc,
                 tmx_files_parsed, i, log, parsed,
                 sql_handler>>

\* the column the first call returned is the argument of a second call
CallAgainWithColumn ==
  /\ call.fn = "lang_code_to_db_column"
  /\ call.returned
  /\ call.n = 1
  /\ call.result.some
  /\ call' = Calling("lang_code_to_db_column", call.result.value, 2)
  /\ UNCHANGED <<output_file_exists, TRANSACTION_SIZE, requested_langs, conn,
                 language_columns_in_db, docs_in_db, queries, valid_lang_codes,
                 pc, tmx_files_parsed, i, log, parsed,
                 sql_handler>>

NextNormalize ==
  \/ CallLangCodeToDbColumn
  \/ CallAgainWithColumn

SpecNormalize == InitNormalize /\ [][NextNormalize]_vars

(***************************************************************************)
(* coerce_lang_codes called on its own, as main does with the codes of the  *)
(* command line before there is a handler.                                 *)
(***************************************************************************)
\* the codes of the command line: every string of two ASCII letters, the
\* strings of CodeChars, and some longer ones
CliCodes ==
  [1..2 -> UpperLetters \cup LowerLetters] \cup Codes
    \cup {EN_GB, PL_01, en_gb, <<"H", "e", "l", "l", "o">>, <<"e", "n", " ">>,
          <<" ", "e", "n">>, <<"e", "n", "g">>, <<"e">>, <<"p", "1">>}

InitCoerce ==
  /\ AtRest(NoConnection)
  /\ sql_handler = NoSqlHandler
  /\ \E code \in CliCodes : call = Calling("coerce_lang_codes", <<code>>, 1)

\* coerce_lang_codes(langs)
CallCoerceLangCodes ==
  /\ call.fn = "coerce_lang_codes"
  /\ ~call.returned
  /\ call' = Returned(call, coerce_lang_codes(call.arg))
  /\ UNCHANGED <<output_file_exists, TRANSACTION_SIZE, requested_langs, conn,
                 language_columns_in_db, docs_in_db, queries, valid_lang_codes,
                 pc, tmx_files_parsed, i, log, parsed,
                 sql_handler>>

NextCoerce == CallCoerceLangCodes

SpecCoerce == InitCoerce /\ [][NextCoerce]_vars

(***************************************************************************)
(* The flat-script writer (src/handlers/sql.rs), driven on its own by a    *)
(* caller that hands it the units of one body, as main does with the       *)
(* SQLite writer.  A writer value w is a record of the fields of its       *)
(* Handler; the text of inserts_file is kept statement by statement.       *)
(***************************************************************************)
\* CREATE TABLE translation_units (...);
CreateTableStatement == [kind |-> "CREATE TABLE"]

\* ALTER TABLE translation_units ADD COLUMN <column> TEXT;
AlterTableStatement(column) == [kind |-> "ALTER TABLE", column |-> column]

\* INSERT INTO translation_units (sequential_number, document_id, <columns>)
\* VALUES <tuples>; terminated is whether the closing ";" was written
InsertStatement(columns, tuples, terminated) ==
  [kind |-> "INSERT", columns |-> columns, tuples |-> tuples,
   terminated |-> terminated]

\* Handler::new of the flat-script writer
sql_new(w) ==
  IF w.file_exists THEN [w EXCEPT !.state = "failed"]
  ELSE [w EXCEPT !.state = "live", !.inserts_file = <<CreateTableStatement>>]

\* for seg in &translation_unit.segments { if !langs_in_batch.contains(..) push }
RECURSIVE PushLangs(_, _, _)
PushLangs(langs_in_batch, segments, k) ==
  IF k > Len(segments) THEN langs_in_batch
  ELSE PushLangs(IF Contains(langs_in_batch, segments[k].lang)
                 THEN langs_in_batch
                 ELSE Append(langs_in_batch, segments[k].lang),
                 segments, k + 1)

\* the first loop of commit_batch, from language k of the batch on
RECURSIVE WriteAlters(_, _)
WriteAlters(w, k) ==
  IF k > Len(w.langs_in_batch) THEN w
  ELSE WriteAlters(
         IF Contains(w.lang_columns, w.langs_in_batch[k]) THEN w
         ELSE [w EXCEPT
                 !.inserts_file =
                    Append(@, AlterTableStatement(
                                sql_lang_code_to_db_column(w.langs_in_batch[k]))),
                 !.lang_columns = Append(@, w.langs_in_batch[k])],
         k + 1)

\* str::replace("'", "''")
RECURSIVE EscapeQuotes(_)
EscapeQuotes(text) ==
  IF Len(text) = 0 THEN <<>>
  ELSE (IF Head(text) = "'" THEN <<"'", "'">> ELSE <<Head(text)>>)
         \o EscapeQuotes(Tail(text))

\* TranslationUnit::get_lang: the first segment of the unit in the language
get_lang(tu, lang) ==
  IF \E k \in 1..Len(tu.segments) : tu.segments[k].lang = lang
  THEN Some(tu.segments[CHOOSE k \in 1..Len(tu.segments) :
                          /\ tu.segments[k].lang = lang
                          /\ \A j \in 1..(k - 1) : tu.segments[j].lang # lang])
  ELSE None

\* the value written for one language of the batch: the escaped text, or NULL
TupleValue(tuv) == IF tuv.some THEN Some(EscapeQuotes(tuv.value.content)) ELSE None

\* the tuple "(seq, 'doc', values..)" of one unit of the batch
TupleOf(tu, seq, langs) ==
  [seq |-> seq, doc |-> doc_name(tu).value,
   values |-> [k \in 1..Len(langs) |-> TupleValue(get_lang(tu, langs[k]))]]

\* the loop of commit_batch over incoming_batch, from unit k on; the unwrap of
\* doc_name panics for a unit without document name, after the tuples of the
\* units before it were written
RECURSIVE WriteTuples(_, _, _, _)
WriteTuples(batch, k, langs, tuples) ==
  IF k > Len(batch) THEN [ok |-> TRUE, tuples |-> tuples]
  ELSE IF ~doc_name(batch[k].tu).some THEN [ok |-> FALSE, tuples |-> tuples]
  ELSE WriteTuples(batch, k + 1, langs,
                   Append(tuples, TupleOf(batch[k].tu, batch[k].seq, langs)))

\* langs_list of commit_batch
LangsList(langs_in_batch) ==
  [k \in 1..Len(langs_in_batch) |-> sql_lang_code_to_db_column(langs_in_batch[k])]

\* the INSERT statement of commit_batch for the writer a after the ALTER
\* statements and the tuples r written for it
WriteInsert(a, r) ==
  IF r.ok
  THEN [ok |-> TRUE,
        w |-> [a EXCEPT !.inserts_file =
                           Append(@, InsertStatement(LangsList(a.langs_in_batch),
                                                     r.tuples, TRUE)),
                        !.incoming_batch = <<>>,
                        !.langs_in_batch = <<>>]]
  ELSE [ok |-> FALSE,
        w |-> [a EXCEPT !.inserts_file =
                           Append(@, InsertStatement(LangsList(a.langs_in_batch),
                                                     r.tuples, FALSE))]]

\* the INSERT statement for the writer a after its ALTER statements
InsertAfterAlters(a) ==
  WriteInsert(a, WriteTuples(a.incoming_batch, 1, a.langs_in_batch, <<>>))

\* Handler::commit_batch of the flat-script writer
commit_batch(w) == InsertAfterAlters(WriteAlters(w, 1))

\* if self.incoming_batch.len() == INSERT_SIZE { self.commit_batch().unwrap() }
CommitBatchIfFull(w) ==
  IF Len(w.incoming_batch) = w.INSERT_SIZE THEN commit_batch(w)
  ELSE [ok |-> TRUE, w |-> w]

\* TranslationUnitHandler::handle of the flat-script writer
sql_handle(w, tu, sequential_number_in_doc) ==
  CommitBatchIfFull(
    [w EXCEPT !.langs_in_batch = PushLangs(@, tu.segments, 1),
              !.incoming_batch =
                 Append(@, [tu |-> tu, seq |-> sequential_number_in_doc]),
              !.handled = @ + 1])

\* Drop for Handler of the flat-script writer
sql_drop(w) == commit_batch(w)

MainAtRest ==
  UNCHANGED <<output_file_exists, TRANSACTION_SIZE, requested_langs, conn,
              language_columns_in_db, docs_in_db, queries, valid_lang_codes,
              pc, tmx_files_parsed, i, log, parsed, call>>

InitScript ==
  /\ AtRest(NoConnection)
  /\ call = NoCall
  /\ \E exists \in BOOLEAN, size \in 1..MaxTransactionSize :
       sql_handler = [NoSqlHandler EXCEPT !.file_exists = exists,
                                          !.INSERT_SIZE = size]

\* the caller creates the writer
SqlNew ==
  /\ sql_handler.state = "none"
  /\ sql_handler' = sql_new(sql_handler)
  /\ MainAtRest

\* the caller hands the next unit of the body to handle; a panic in handle
\* unwinds through the caller, the writer is dropped on the way and the
\* second panic, in the drop, aborts the process
SqlHandle ==
  /\ sql_handler.state = "live"
  /\ sql_handler.handled < MaxUnits
  /\ \E tu \in Units :
       \E r \in {sql_handle(sql_handler, tu, SequenceNumber(sql_handler.handled))} :
         sql_handler' = IF r.ok THEN r.w
                        ELSE [sql_drop(r.w).w EXCEPT !.state = "failed"]
  /\ MainAtRest

\* the caller returns and the writer goes out of scope
SqlDrop ==
  /\ sql_handler.state = "live"
  /\ \E r \in {sql_drop(sql_handler)} :
       sql_handler' = [r.w EXCEPT !.state = IF r.ok THEN "dropped" ELSE "failed"]
  /\ MainAtRest

NextScript ==
  \/ SqlNew
  \/ SqlHandle
  \/ SqlDrop

SpecScript == InitScript /\ [][NextScript]_vars

(***************************************************************************)
(* A run of main during which SQLite refuses commits.                      *)
(***************************************************************************)
\* the environment: from now on SQLite refuses the next commit, or the next
\* two (the commit and the one the drop of the handler makes after it)
CommitsStartFailing ==
  /\ pc \in {"for_each_tmx_file", "translation_units", "flushed"}
  /\ conn.faults = 0
  /\ conn.aborted = <<>>
  /\ \E n \in 1..2 : conn' = [conn EXCEPT !.faults = n]
  /\ UNCHANGED <<output_file_exists, TRANSACTION_SIZE, requested_langs,
                 language_columns_in_db, docs_in_db, queries, valid_lang_codes,
                 pc, tmx_files_parsed, i, log, parsed, call,
                 sql_handler>>

NextFaulty ==
  \/ InitHandler
  \/ ParseEntry
  \/ ProcessUnit
  \/ EndOfBody
  \/ Flush
  \/ Finish
  \/ CommitsStartFailing

SpecFaulty == Init /\ [][NextFaulty]_vars

Next ==
  \/ InitHandler
  \/ ParseEntry
  \/ ProcessUnit
  \/ EndOfBody
  \/ Flush
  \/ Finish

Spec == Init /\ [][Next]_vars

(***************************************************************************)
(* Vocabulary of the properties.                                           *)
(***************************************************************************)
\* the language codes a segment's code is replaced by in the properties
LangCodes == {EN_GB, en_gb, PL_01, NoLang}

\* the units handed to the handler, in handling order
ForwardedUnits == SelectSeq(log, LAMBDA rec : rec.forwarded)

\* the units for which handle returned, in handling order
HandledUnits == SelectSeq(log, LAMBDA rec : rec.forwarded /\ rec.ok)

PersistedRows == conn.translation_units

\* the rows the pending inserts of the batch will store
PendingRows == [k \in 1..Len(queries) |-> InsertedRow(conn, queries[k])]

\* zero-based position of the k-th unit read within the body of its entry
PositionInBody(k) == Cardinality({j \in 1..(k - 1) : log[j].entry = log[k].entry})

\* the segments of tu the filter lets into the output: every segment without
\* a filter, else those whose code is a requested language
WrittenSegments(tu) ==
  SelectSeq(tu.segments,
            LAMBDA el : requested_langs.kind = "Unlimited"
                        \/ el.lang \in Range(requested_langs.langs))

\* the character of a column for a character of a code that is changed
ColumnChar ==
  [c \in UpperLetters \cup {"-"} |->
     IF c = "-" THEN "_"
     ELSE CHOOSE l \in LowerLetters :
            \E n \in 1..26 : UpperAlphabet[n] = c /\ LowerAlphabet[n] = l]

\* the column of a language: its code in lower case with '-' as '_'
ColumnOf(lang) ==
  [k \in 1..Len(lang) |->
     IF lang[k] \in DOMAIN ColumnChar THEN ColumnChar[lang[k]] ELSE lang[k]]

\* the first segment of segs whose language has the column
FirstSegmentOf(segs, column) ==
  segs[CHOOSE k \in 1..Len(segs) :
         /\ ColumnOf(segs[k].lang) = column
         /\ \A j \in 1..(k - 1) : ColumnOf(segs[j].lang) # column]

\* the id of the documents row with the name
DocumentIdOf(name) ==
  (CHOOSE d \in Range(conn.documents) : d.name = name).id

NamesOf(units) ==
  {doc_name(units[k].tu).value : k \in {j \in 1..Len(units) : doc_name(units[j].tu).some}}

\* tu with the language code of its k-th segment replaced
ReplaceLang(tu, k, code) == [tu EXCEPT !.segments[k].lang = code]

(***************************************************************************)
(* C1                                                                      *)
(***************************************************************************)
\* C1: once the run has ended successfully, the handler dropped, the number
\* of rows of translation_units equals the number of units the filter let
\* through, for every filter and every value of the batch threshold: no row is
\* dropped and none is stored twice.
C1_RowsEqualIncludedUnits ==
  pc = "done" =>
    /\ Len(PersistedRows) = Cardinality({k \in 1..Len(log) : log[k].forwarded})
    /\ Cardinality({PersistedRows[k].id : k \in 1..Len(PersistedRows)})
         = Len(PersistedRows)

\* a successful run in which handle committed the batch when the second
\* accepted unit made it larger than the threshold
C1_Witness ==
  /\ pc = "done"
  /\ TRANSACTION_SIZE = 1
  /\ Len(PersistedRows) = 2

(***************************************************************************)
(* C2                                                                      *)
(***************************************************************************)
\* the rows of translation_units, stored or still in the batch, in the order
\* of their inserts
AllRows == PersistedRows \o PendingRows

RowsOfDocument(rows, name) ==
  LET id == Some(DocumentIdOf(name))
  IN  {k \in 1..Len(rows) : rows[k].document_id = id}

UnitsOfDocument(units, name) ==
  {k \in 1..Len(units) : doc_name(units[k].tu) = Some(name)}

\* C2 as claimed: after any sequence of handle calls (none of which failed)
\* there are as many documents rows as distinct document names among the
\* handled units, units of one name reference one document id, and for each
\* name the number of PERSISTED unit rows referencing its row equals the number
\* of accepted units carrying the name.
C2_AsClaimed ==
  pc \in {"for_each_tmx_file", "translation_units", "done"} =>
    /\ Len(conn.documents) = Cardinality(NamesOf(ForwardedUnits))
    /\ \A j, k \in 1..Len(ForwardedUnits) :
         doc_name(ForwardedUnits[j].tu) = doc_name(ForwardedUnits[k].tu)
           => AllRows[j].document_id = AllRows[k].document_id
    /\ \A name \in NamesOf(ForwardedUnits) :
         Cardinality(RowsOfDocument(PersistedRows, name))
           = Cardinality(UnitsOfDocument(ForwardedUnits, name))

\* C2 amended: after any sequence of handle calls there are as many documents
\* rows as distinct document names among the units handed to handle, the rows
\* of units of one name reference one document id, and for each name the number
\* of unit rows referencing its row, persisted or still pending in the batch,
\* equals the number of units of that name for which handle returned; once the
\* batch is committed (it is empty) all of them are persisted.
C2_DocumentsAndRowsPerDocument ==
  LET units == HandledUnits
      rows == AllRows
  IN  /\ Len(conn.documents) = Cardinality(NamesOf(ForwardedUnits))
      /\ Len(rows) = Len(units)
      /\ \A j, k \in 1..Len(units) :
           doc_name(units[j].tu) = doc_name(units[k].tu)
             => rows[j].document_id = rows[k].document_id
      /\ \A name \in NamesOf(units) :
           /\ Cardinality(RowsOfDocument(rows, name))
                = Cardinality(UnitsOfDocument(units, name))
           /\ queries = <<>> =>
                Cardinality(RowsOfDocument(PersistedRows, name))
                  = Cardinality(UnitsOfDocument(units, name))
      /\ pc = "done" => queries = <<>>

\* two units of one document have been handled and their rows are still
\* pending in the batch
C2_Witness ==
  /\ Len(conn.documents) = 1
  /\ Len(HandledUnits) = 2
  /\ HandledUnits[1].tu # HandledUnits[2].tu
  /\ doc_name(HandledUnits[1].tu) = doc_name(HandledUnits[2].tu)
  /\ PersistedRows = <<>>
  /\ Len(queries) = 2

(***************************************************************************)
(* C3                                                                      *)
(***************************************************************************)
NonNull(row, lang) == ColumnOf(lang) \in DOMAIN row.cells

\* C3: with the filter Each(L) every persisted row has a non-null value in the
\* column of every language of L; with the filter Some(L) every persisted row
\* has a non-null value in the column of at least one language of L.
C3_RequestedColumnsNonNull ==
  \A k \in 1..Len(PersistedRows) :
    /\ requested_langs.kind = "Each" =>
         \A lang \in Range(requested_langs.langs) : NonNull(PersistedRows[k], lang)
    /\ requested_langs.kind = "Some" =>
         \E lang \in Range(requested_langs.langs) : NonNull(PersistedRows[k], lang)

\* Each of two languages: a row is persisted and a unit with one of the two
\* languages only was excluded
C3_Witness ==
  /\ requested_langs = Each(<<EN_GB, PL_01>>)
  /\ Len(PersistedRows) >= 1
  /\ \E k \in 1..Len(log) :
       /\ ~log[k].forwarded
       /\ \E el \in Range(log[k].tu.segments) : el.lang = EN_GB

(***************************************************************************)
(* C4                                                                      *)
(***************************************************************************)
\* C4: the sequence number of every unit read is its zero-based position in
\* the body of its entry, whether or not units before it were filtered out,
\* and it is the number the unit's row carries.
C4_SequenceNumberIsPosition ==
  LET units == HandledUnits
      rows == AllRows
  IN  /\ \A k \in 1..Len(log) : log[k].seq = PositionInBody(k)
      /\ \A k \in 1..Len(rows) :
           k <= Len(units) => rows[k].sequential_number = Some(units[k].seq)

\* in the second entry a unit is excluded at position 0 and the next one is
\* handled with number 1
C4_Witness ==
  /\ Len(log) = 2
  /\ log[1].entry = 2 /\ log[2].entry = 2
  /\ ~log[1].forwarded /\ log[2].forwarded /\ log[2].ok
  /\ log[2].seq = 1
  /\ Len(AllRows) = 1
  /\ AllRows[1].sequential_number = Some(1)

(***************************************************************************)
(* C5                                                                      *)
(***************************************************************************)
ColumnsOf(segs) == {ColumnOf(segs[n].lang) : n \in 1..Len(segs)}

\* the row carries the sequence number and the document of the handled unit
RowBelongsToUnit(row, unit) ==
  /\ row.sequential_number = Some(unit.seq)
  /\ doc_name(unit.tu).some
  /\ row.document_id = Some(DocumentIdOf(doc_name(unit.tu).value))

\* every segment written for the unit has its text in its column of the row
EverySegmentStored(row, unit) ==
  \A el \in Range(WrittenSegments(unit.tu)) :
    /\ ColumnOf(el.lang) \in DOMAIN row.cells
    /\ row.cells[ColumnOf(el.lang)] = el.content

\* the non-null language columns of the row are those of the segments written
\* for the unit, each with the text of the first of them
FirstSegmentsStored(row, written) ==
  /\ DOMAIN row.cells = ColumnsOf(written)
  /\ \A column \in DOMAIN row.cells :
       row.cells[column] = FirstSegmentOf(written, column).content

\* C5 as claimed: the k-th persisted row belongs to the k-th accepted unit and
\* for EVERY segment written for the unit the text in the column of the
\* segment's language is the segment's text.
C5_AsClaimed ==
  LET units == HandledUnits
  IN  \A k \in 1..Len(PersistedRows) :
        k <= Len(units) =>
          /\ RowBelongsToUnit(PersistedRows[k], units[k])
          /\ EverySegmentStored(PersistedRows[k], units[k])

\* C5 amended: the k-th persisted row belongs to the k-th accepted unit, its
\* non-null language columns are those of the segments written for the unit,
\* and the text in each is, unchanged, the text of the first segment written
\* for the unit that maps to the column; a later segment of the same column is
\* not stored.
C5_RoundTripFirstSegment ==
  LET units == HandledUnits
  IN  /\ Len(PersistedRows) <= Len(units)
      /\ \A k \in 1..Len(PersistedRows) :
           k <= Len(units) =>
             /\ RowBelongsToUnit(PersistedRows[k], units[k])
             /\ FirstSegmentsStored(PersistedRows[k], WrittenSegments(units[k].tu))

\* two rows persisted in handling order; the second unit has three segments of
\* one column and the text of the first of them is stored
C5_Witness ==
  /\ Len(PersistedRows) = 2
  /\ Len(HandledUnits) >= 2
  /\ PersistedRows[1].cells = (ColumnOf(EN_GB) :> <<"1", "0">>) @@ (ColumnOf(PL_01) :> <<"b">>)
  /\ Len(HandledUnits[2].tu.segments) = 3
  /\ PersistedRows[2].cells = (ColumnOf(EN_GB) :> <<"a">>)

(***************************************************************************)
(* C6                                                                      *)
(***************************************************************************)
HasLang(tu, lang) == \E el \in Range(tu.segments) : el.lang = lang

\* C6: with the filter Some(L), L not empty, a unit is forwarded to the handler
\* if and only if at least one language of L is the language code of one of
\* its segments.
C6_AnyOfForwardsIffSomeLanguage ==
  (requested_langs.kind = "Some" /\ Len(requested_langs.langs) > 0) =>
    \A k \in 1..Len(log) :
      log[k].forwarded
        <=> \E lang \in Range(requested_langs.langs) : HasLang(log[k].tu, lang)

\* Some of two languages: a unit that has only the second one is forwarded and
\* handled, a unit that has neither is skipped
C6_Witness ==
  /\ requested_langs = SomeOf(<<EN_GB, PL_01>>)
  /\ \E k \in 1..Len(log) :
       /\ log[k].forwarded /\ log[k].ok
       /\ HasLang(log[k].tu, PL_01) /\ ~HasLang(log[k].tu, EN_GB)
  /\ \E k \in 1..Len(log) : ~log[k].forwarded /\ Len(log[k].tu.segments) > 0

(***************************************************************************)
(* C7                                                                      *)
(***************************************************************************)
\* C7: with the filter Each(L) a unit is forwarded to the handler if and only
\* if every language of L is the language code of one of its segments; with L
\* empty every unit is forwarded.
C7_AllOfForwardsIffEveryLanguage ==
  requested_langs.kind = "Each" =>
    \A k \in 1..Len(log) :
      /\ log[k].forwarded
           <=> \A lang \in Range(requested_langs.langs) : HasLang(log[k].tu, lang)
      /\ Len(requested_langs.langs) = 0 => log[k].forwarded

\* Each of no language: two units, one of them without any segment, are both
\* forwarded
C7_Witness ==
  /\ requested_langs = Each(<<>>)
  /\ Len(log) = 2
  /\ \A k \in 1..2 : log[k].forwarded
  /\ \E k \in 1..2 : Len(log[k].tu.segments) = 0
  /\ \E k \in 1..2 : Len(log[k].tu.segments) > 0

(***************************************************************************)
(* C8                                                                      *)
(***************************************************************************)
\* C8 as claimed: with the filter Some(L), L empty, no unit is excluded.
C8_AsClaimed ==
  (requested_langs.kind = "Some" /\ Len(requested_langs.langs) = 0) =>
    \A k \in 1..Len(log) : log[k].forwarded

\* C8 amended: with the filter Some(L), L empty, the predicate excludes every
\* unit: no unit is forwarded to the handler and no row is ever written.
C8_AnyOfNothingExcludesAll ==
  (requested_langs.kind = "Some" /\ Len(requested_langs.langs) = 0) =>
    /\ \A k \in 1..Len(log) : ~log[k].forwarded
    /\ AllRows = <<>>
    /\ conn.documents = <<>>

\* a whole run of two units under Some of no language
C8_Witness ==
  /\ requested_langs = SomeOf(<<>>)
  /\ Len(log) = 2
  /\ pc = "done"

(***************************************************************************)
(* C9                                                                      *)
(***************************************************************************)
\* C9 as claimed: the decision of the filter does not change when the code of
\* a segment is replaced by another code with the same column.
C9_AsClaimed ==
  \A k \in 1..Len(log) :
    \A n \in 1..Len(log[k].tu.segments) :
      \A code \in LangCodes :
        ColumnOf(code) = ColumnOf(log[k].tu.segments[n].lang)
          => Forwarded(ReplaceLang(log[k].tu, n, code), requested_langs)
               = log[k].forwarded

\* no segment of tu has a code that is, character for character, a requested
\* language
NoExactMatch(tu) ==
  \A lang \in Range(requested_langs.langs) : ~HasLang(tu, lang)

\* C9 amended: the filter compares a requested language with a segment's code
\* character for character, without normalization.  The decision does not
\* change when the code of a segment is replaced by a code that equals the same
\* requested languages, and under a filter of at least one language a unit
\* none of whose codes equals a requested language is excluded, also when one
\* of its codes has the column of a requested language.
C9_ExactComparison ==
  \A k \in 1..Len(log) :
    /\ \A n \in 1..Len(log[k].tu.segments) :
         \A code \in LangCodes :
           (\A lang \in Range(requested_langs.langs) :
              (code = lang) <=> (log[k].tu.segments[n].lang = lang))
             => Forwarded(ReplaceLang(log[k].tu, n, code), requested_langs)
                  = log[k].forwarded
    /\ (Len(requested_langs.langs) > 0 /\ NoExactMatch(log[k].tu))
         => ~log[k].forwarded

\* a unit whose only segment has the code en_gb is excluded by Some(EN-GB)
C9_Witness ==
  /\ requested_langs = SomeOf(<<EN_GB>>)
  /\ \E k \in 1..Len(log) :
       /\ ~log[k].forwarded
       /\ Len(log[k].tu.segments) = 1
       /\ log[k].tu.segments[1].lang = en_gb
       /\ ColumnOf(en_gb) = ColumnOf(EN_GB)

(***************************************************************************)
(* C10                                                                     *)
(***************************************************************************)
RequestedColumns == {ColumnOf(lang) : lang \in Range(requested_langs.langs)}

\* C10: with the filter Some(L) or Each(L) every language column of
\* translation_units is the column of a language of L, and every text in a
\* row, stored or pending, is the text of a segment of the row's unit whose
\* code is in L: nothing is stored for a segment of another language.
C10_OnlyRequestedLanguages ==
  requested_langs.kind # "Unlimited" =>
    LET units == HandledUnits
        rows == AllRows
    IN  /\ Range(conn.tu_columns) \subseteq RequestedColumns
        /\ Range(language_columns_in_db) \subseteq RequestedColumns
        /\ \A k \in 1..Len(rows) :
             k <= Len(units) =>
               \A column \in DOMAIN rows[k].cells :
                 \E el \in Range(units[k].tu.segments) :
                   /\ el.lang \in Range(requested_langs.langs)
                   /\ ColumnOf(el.lang) = column
                   /\ el.content = rows[k].cells[column]

\* under Some(EN-GB) a unit with an EN-GB and a PL-01 segment is persisted:
\* the table has the column en_gb only
C10_Witness ==
  /\ requested_langs = SomeOf(<<EN_GB>>)
  /\ conn.tu_columns = <<ColumnOf(EN_GB)>>
  /\ \E k \in 1..Len(PersistedRows) :
       /\ k <= Len(HandledUnits)
       /\ HasLang(HandledUnits[k].tu, PL_01)
       /\ DOMAIN PersistedRows[k].cells = {ColumnOf(EN_GB)}

(***************************************************************************)
(* C11                                                                     *)
(***************************************************************************)
\* C11 as claimed: when decoding or parsing an entry fails the entry is
\* skipped and the run goes on with the next entry; it does not end with an
\* error because of it.
C11_AsClaimed ==
  \A k \in 1..Len(parsed) : ~parsed[k] => pc # "failed"

\* C11 amended: a failure to decode or parse an entry is returned through both
\* callbacks and main: the run ends with the error at the first such entry.
\* No unit of the entry is read, no later entry is opened and no later unit is
\* handled; the rows of the units handled before it are committed when the
\* handler is dropped on the way out.
C11_ParseFailureEndsRun ==
  \A k \in 1..Len(parsed) :
    ~parsed[k] =>
      /\ k = Len(parsed)
      /\ pc = "failed"
      /\ \A j \in 1..Len(log) : log[j].entry < k
      /\ queries = <<>>
      /\ Len(PersistedRows) = Len(HandledUnits)

\* the second entry does not parse: the run has failed and the row of the unit
\* of the first entry, pending until then, has been committed by the drop
C11_Witness ==
  /\ parsed = <<TRUE, FALSE>>
  /\ pc = "failed"
  /\ TRANSACTION_SIZE = 2
  /\ Len(HandledUnits) = 1
  /\ Len(PersistedRows) = 1
  /\ conn.committed = <<1>>

(***************************************************************************)
(* C12                                                                     *)
(***************************************************************************)
\* tu has no property with the reserved key
Unnamed(tu) == \A k \in 1..Len(tu.props) : tu.props[k].key # DocNoKey

\* the names the properties with the reserved key give the units
NamedDocuments(units) ==
  UNION {{units[k].tu.props[n].value :
            n \in {m \in 1..Len(units[k].tu.props) :
                     units[k].tu.props[m].key = DocNoKey}} :
         k \in 1..Len(units)}

\* C12: when a unit the filter lets through has no property with the reserved
\* key, handle fails and the whole run with it: the unit is the last one read,
\* no row is stored or pending for it and no documents row is created for it.
C12_UnnamedUnitFailsRun ==
  \A k \in 1..Len(log) :
    (log[k].forwarded /\ Unnamed(log[k].tu)) =>
      /\ ~log[k].ok
      /\ k = Len(log)
      /\ pc = "failed"
      /\ queries = <<>>
      /\ Len(PersistedRows) = k - 1 - Cardinality({j \in 1..(k - 1) : ~log[j].forwarded})
      /\ {conn.documents[n].name : n \in 1..Len(conn.documents)}
           \subseteq NamedDocuments(SubSeq(log, 1, k - 1))

\* a named unit is handled, then a unit without document name: the run has
\* failed with the one row of the first unit and its one document
C12_Witness ==
  /\ Len(log) = 2
  /\ log[1].forwarded /\ log[1].ok
  /\ log[2].forwarded /\ ~log[2].ok /\ Unnamed(log[2].tu)
  /\ pc = "failed"
  /\ Len(PersistedRows) = 1
  /\ Len(conn.documents) = 1

(***************************************************************************)
(* C13                                                                     *)
(***************************************************************************)
\* the column of the code has the form of the column-identifier pattern: two
\* word characters, a separator, two word characters
MatchesPattern(lang) ==
  LET column == ColumnOf(lang)
  IN  /\ Len(column) = 5
      /\ column[3] = "_"
      /\ \A n \in {1, 2, 4, 5} : column[n] \in LowerLetters \cup Digits \cup {"_"}

\* SQLite takes the column of the code as the name of a new column
Addable(lang) == ColumnOf(lang)[1] \notin Digits

\* C13 as claimed: handle fails for every unit that has any segment whose
\* code, normalized, does not match the pattern, whatever the filter is.
C13_AsClaimed ==
  \A k \in 1..Len(log) :
    (log[k].forwarded /\ \E el \in Range(log[k].tu.segments) : ~MatchesPattern(el.lang))
      => ~log[k].ok

\* C13 amended: handle fails for every unit that has a segment that is
\* eligible (any segment without a filter, else a segment whose code is a
\* requested language) and whose code, normalized, does not match the pattern.
\* The code of a segment that is not eligible is never normalized: such a
\* segment is left out and is no error, so a named unit all of whose eligible
\* segments have matching codes is handled.
C13_IneligibleSegmentsAreNotValidated ==
  \A k \in 1..Len(log) :
    log[k].forwarded =>
      /\ (\E el \in Range(WrittenSegments(log[k].tu)) : ~MatchesPattern(el.lang))
           => ~log[k].ok
      /\ ( /\ ~Unnamed(log[k].tu)
           /\ \A el \in Range(WrittenSegments(log[k].tu)) :
                MatchesPattern(el.lang) /\ Addable(el.lang) )
           => log[k].ok

\* without a filter a unit with a PL-01 segment and a segment without code
\* fails at the second segment, after its document row and the column of the
\* first segment were written
C13_Witness ==
  /\ requested_langs = Unlimited
  /\ pc = "failed"
  /\ Len(log) >= 1
  /\ HasLang(log[Len(log)].tu, NoLang)
  /\ ~log[Len(log)].ok
  /\ ~Unnamed(log[Len(log)].tu)
  /\ ColumnOf(PL_01) \in Range(conn.tu_columns)

(***************************************************************************)
(* C14                                                                     *)
(***************************************************************************)
RECURSIVE Sum(_)
\* the sum of a sequence of numbers
Sum(s) == IF Len(s) = 0 THEN 0 ELSE s[1] + Sum(Tail(s))

\* the handler was created and has been dropped: main returned, or an error
\* or a panic ended the run
TornDown == pc \in {"done", "failed"} /\ conn.open

\* C14: once the handler is dropped, by the return of main or on the way out
\* of a failed run, flushed by the caller before or not, no insert is pending
\* and the row of every handled unit has been committed exactly once: the
\* table has one row per handled unit, in handling order, and the transactions
\* committed over the run hold as many inserts as units were handled.
C14_TeardownCommitsExactlyOnce ==
  TornDown =>
    LET units == HandledUnits
    IN  /\ queries = <<>>
        /\ Len(PersistedRows) = Len(units)
        /\ \A k \in 1..Len(PersistedRows) :
             /\ PersistedRows[k].id = k
             /\ k <= Len(units) => RowBelongsToUnit(PersistedRows[k], units[k])
        /\ Sum(conn.committed) = Len(units)

\* main returned without any commit before the drop: the drop committed the
\* two pending inserts in one transaction
C14_Witness ==
  /\ pc = "done"
  /\ TRANSACTION_SIZE = 2
  /\ Len(HandledUnits) = 2
  /\ conn.committed = <<2>>
  /\ Len(PersistedRows) = 2

(***************************************************************************)
(* C15                                                                     *)
(***************************************************************************)
\* a step in which the batch is committed by the caller or by the drop of the
\* handler at the end of a run, and the batch is empty
CommitOfEmptyBatch ==
  /\ pc \in {"for_each_tmx_file", "flushed"}
  /\ tmx_files_parsed' = tmx_files_parsed
  /\ queries = <<>>

\* C15: a commit of the empty batch changes neither the rows of
\* translation_units nor the rows of documents, the tables, the columns, the
\* cache of document ids or the registry of columns, the batch stays empty
\* and no error is raised.
C15_FlushOfEmptyBatchIsNoOp ==
  [][CommitOfEmptyBatch =>
       /\ conn'.translation_units = conn.translation_units
       /\ conn'.documents = conn.documents
       /\ conn'.tables = conn.tables
       /\ conn'.tu_columns = conn.tu_columns
       /\ docs_in_db' = docs_in_db
       /\ language_columns_in_db' = language_columns_in_db
       /\ valid_lang_codes' = valid_lang_codes
       /\ queries' = <<>>
       /\ pc' \in {"flushed", "done"}]_vars

\* the caller committed the one pending insert and the drop of the handler
\* then committed the empty batch: the table has the one row
C15_Witness ==
  /\ pc = "done"
  /\ conn.committed = <<1, 0>>
  /\ Len(PersistedRows) = 1
  /\ Len(conn.documents) = 1

(***************************************************************************)
(* C16                                                                     *)
(***************************************************************************)
\* C16: when the output path exists the run fails in init_handler, before
\* anything is created: the connection is never opened, no table is created
\* or dropped, the handler has no state, no entry is opened and no unit is
\* read.
C16_ExistingOutputFailsFirst ==
  output_file_exists =>
    /\ pc \in {"init_handler", "failed"}
    /\ conn = NoConnection
    /\ language_columns_in_db = <<>> /\ docs_in_db = <<>>
    /\ queries = <<>> /\ valid_lang_codes = <<>>
    /\ tmx_files_parsed = 0 /\ parsed = <<>>
    /\ log = <<>>

\* the run has failed on an existing output path
C16_Witness ==
  /\ output_file_exists
  /\ pc = "failed"
  /\ ~conn.open

(***************************************************************************)
(* C17                                                                     *)
(***************************************************************************)
\* a handler whose cache of valid codes is empty
FreshHandler == [Handler EXCEPT !.valid_lang_codes = <<>>]

\* C17: normalization is idempotent.  When lang_code_to_db_column has
\* returned a column, a second call with that column, on the same handler
\* (the column is in the cache of valid codes) or on a new one (it is matched
\* against the pattern), succeeds and returns the same column; the second
\* call made on the same handler has returned its argument; and the infallible
\* lang_code_to_db_column of the flat-script writer returns its own result
\* unchanged.
C17_NormalizationIsIdempotent ==
  call.fn = "lang_code_to_db_column" =>
    /\ (call.returned /\ call.result.some) =>
         /\ lang_code_to_db_column(Handler, call.result.value).ok
         /\ lang_code_to_db_column(Handler, call.result.value).column
              = call.result.value
         /\ lang_code_to_db_column(FreshHandler, call.result.value).ok
         /\ lang_code_to_db_column(FreshHandler, call.result.value).column
              = call.result.value
    /\ (call.returned /\ call.n = 2) => call.result = Some(call.arg)
    /\ sql_lang_code_to_db_column(sql_lang_code_to_db_column(call.arg))
         = sql_lang_code_to_db_column(call.arg)

\* E--E- was normalized to e__e_, and the second call, with e__e_, has
\* returned e__e_
C17_Witness ==
  /\ call.fn = "lang_code_to_db_column"
  /\ call.n = 2
  /\ call.returned
  /\ call.arg = <<"e", "_", "_", "e", "_">>
  /\ call.result = Some(call.arg)
  /\ valid_lang_codes = <<call.arg>>

(***************************************************************************)
(* C18                                                                     *)
(***************************************************************************)
\* the two-letter codes of the table of coerce_lang_code
TwoLetterCodes ==
  {<<"e", "n">>, <<"p", "l">>, <<"d", "e">>, <<"d", "a">>, <<"e", "l">>, <<"e", "s">>,
   <<"f", "i">>, <<"f", "r">>, <<"i", "t">>, <<"n", "l">>, <<"p", "t">>, <<"s", "v">>,
   <<"l", "v">>, <<"c", "s">>, <<"e", "t">>, <<"h", "u">>, <<"s", "l">>, <<"l", "t">>,
   <<"m", "t">>, <<"s", "k">>, <<"r", "o">>, <<"b", "g">>, <<"h", "r">>, <<"g", "a">>}

\* the place of a letter in the alphabet, whatever its case; 0 for any other
\* character
LetterIndex(c) ==
  IF \E k \in 1..26 : UpperAlphabet[k] = c \/ LowerAlphabet[k] = c
  THEN CHOOSE k \in 1..26 : UpperAlphabet[k] = c \/ LowerAlphabet[k] = c
  ELSE 0

\* a and b are the same string up to the case of their ASCII letters
EqualIgnoringCase(a, b) ==
  /\ Len(a) = Len(b)
  /\ \A k \in 1..Len(a) :
       \/ a[k] = b[k]
       \/ LetterIndex(a[k]) > 0 /\ LetterIndex(a[k]) = LetterIndex(b[k])

InTable(code) == \E key \in TwoLetterCodes : EqualIgnoringCase(code, key)

\* a code of the corpus for the two-letter code: the two letters in upper
\* case, a dash, and a two-character variant
IsVariantOf(out, code) ==
  /\ Len(out) = 5
  /\ EqualIgnoringCase(SubSeq(out, 1, 2), code)
  /\ out[1] \in UpperLetters /\ out[2] \in UpperLetters
  /\ out[3] = "-"
  /\ out[4] \in UpperLetters \cup Digits /\ out[5] \in UpperLetters \cup Digits

\* C18: coerce_lang_codes returns one code for each code it is given: for a
\* two-letter code of the table, in any case, the code of the corpus for it
\* (EN-GB for en, PL-01 for pl), and for every other code the code itself,
\* character for character.
C18_CoercionMapsTableAndKeepsRest ==
  (call.fn = "coerce_lang_codes" /\ call.returned) =>
    /\ Len(call.result) = Len(call.arg)
    /\ \A k \in 1..Len(call.arg) :
         /\ InTable(call.arg[k]) => IsVariantOf(call.result[k], call.arg[k])
         /\ EqualIgnoringCase(call.arg[k], <<"e", "n">>) => call.result[k] = EN_GB
         /\ EqualIgnoringCase(call.arg[k], <<"p", "l">>) => call.result[k] = PL_01
         /\ ~InTable(call.arg[k]) => call.result[k] = call.arg[k]

\* the code Pl was coerced to PL-01
C18_Witness ==
  /\ call.fn = "coerce_lang_codes"
  /\ call.returned
  /\ call.arg = << <<"P", "l">> >>
  /\ call.result = <<PL_01>>

(***************************************************************************)
(* C19                                                                     *)
(***************************************************************************)
\* a step in which handler.handle was called and returned
HandleReturned ==
  /\ pc = "translation_units"
  /\ Len(log') = Len(log) + 1
  /\ log'[Len(log')].forwarded
  /\ log'[Len(log')].ok

\* C19: handle commits the batch as soon as it has reached the threshold:
\* when a call of handle has returned the batch holds fewer than
\* TRANSACTION_SIZE inserts, and a transaction committed by the call holds
\* exactly TRANSACTION_SIZE inserts.
C19_AsClaimed ==
  [][HandleReturned =>
       /\ Len(queries') < TRANSACTION_SIZE
       /\ Len(conn'.committed) > Len(conn.committed) =>
            conn'.committed[Len(conn'.committed)] = TRANSACTION_SIZE]_vars

(***************************************************************************)
(* C20                                                                     *)
(***************************************************************************)
\* the language columns an insert names
LanguageColumnsOf(query) == Range(query.columns) \ FixedColumns

\* s has no element twice
NoDuplicates(s) == \A j, k \in 1..Len(s) : s[j] = s[k] => j = k

\* C20: in every reachable state every language column named by a pending
\* insert, and every column with a value in a stored row, is a column of
\* translation_units and is recorded in the registry; the registry lists the
\* columns in the order in which they were added to the table, and no column
\* was added twice.
C20_ColumnBeforeInsert ==
  /\ \A k \in 1..Len(queries) :
       /\ LanguageColumnsOf(queries[k]) \subseteq Range(conn.tu_columns)
       /\ LanguageColumnsOf(queries[k]) \subseteq Range(language_columns_in_db)
  /\ \A k \in 1..Len(PersistedRows) :
       /\ DOMAIN PersistedRows[k].cells \subseteq Range(conn.tu_columns)
       /\ DOMAIN PersistedRows[k].cells \subseteq Range(language_columns_in_db)
  /\ language_columns_in_db = conn.tu_columns
  /\ NoDuplicates(conn.tu_columns)

\* the first unit added the column pl_01 and its insert is pending; the
\* second unit, with a PL-01 segment too, added no column again and its
\* insert, the second of the batch, names the column
C20_Witness ==
  /\ conn.tu_columns = <<ColumnOf(PL_01)>>
  /\ Len(queries) = 2
  /\ \A k \in 1..2 : ColumnOf(PL_01) \in LanguageColumnsOf(queries[k])
  /\ PersistedRows = <<>>

(***************************************************************************)
(* C21                                                                     *)
(***************************************************************************)
\* s is the beginning of t
IsPrefix(s, t) == Len(s) <= Len(t) /\ SubSeq(t, 1, Len(s)) = s

\* the columns of the segments of tu
SegmentColumns(segments) == {ColumnOf(el.lang) : el \in Range(segments)}

\* C21 as claimed: once handle has returned for a unit, translation_units has
\* a column for the language of EVERY segment of the unit.
C21_AsClaimed ==
  \A k \in 1..Len(log) :
    (log[k].forwarded /\ log[k].ok)
      => SegmentColumns(log[k].tu.segments) \subseteq Range(conn.tu_columns)

\* a step in which a unit was handed to handle
HandleCalled ==
  /\ pc = "translation_units"
  /\ Len(log') = Len(log) + 1
  /\ log'[Len(log')].forwarded

\* C21 amended: when handle has returned for a unit, translation_units has a
\* column for the language of every ELIGIBLE segment of the unit (every
\* segment without a filter, else the segments whose code is a requested
\* language).  A column is added only by a call of handle, for an eligible
\* segment of the unit of the call and when the table does not have it yet;
\* the columns the table had stay, in their order: none is ever removed.
C21_ColumnsOfEligibleSegments ==
  [][/\ IsPrefix(conn.tu_columns, conn'.tu_columns)
     /\ HandleReturned =>
          SegmentColumns(WrittenSegments(log'[Len(log')].tu))
            \subseteq Range(conn'.tu_columns)
     /\ conn'.tu_columns # conn.tu_columns =>
          /\ HandleCalled
          /\ Range(conn'.tu_columns) \ Range(conn.tu_columns)
               \subseteq SegmentColumns(WrittenSegments(log'[Len(log')].tu))]_vars

\* without a filter the first unit brought the column en_gb and the second,
\* with an EN-GB and a PL-01 segment, only added pl_01 behind it
C21_Witness ==
  /\ requested_langs = Unlimited
  /\ Len(HandledUnits) = 2
  /\ HandledUnits[1].tu.segments = <<Tuv(en_gb, <<"a">>)>>
  /\ HasLang(HandledUnits[2].tu, EN_GB) /\ HasLang(HandledUnits[2].tu, PL_01)
  /\ conn.tu_columns = <<ColumnOf(EN_GB), ColumnOf(PL_01)>>

(***************************************************************************)
(* C22                                                                     *)
(***************************************************************************)
\* the unit of the k-th pending insert, the rows of the units before it being
\* stored
UnitOfPending(units, k) == units[Len(PersistedRows) + k]

\* some column is the column of two segments of segs
HasDuplicateColumn(segs) ==
  \E m, n \in 1..Len(segs) : m # n /\ ColumnOf(segs[m].lang) = ColumnOf(segs[n].lang)

\* the positions at which the insert names the column
PositionsOf(query, column) == {n \in 1..Len(query.columns) : query.columns[n] = column}

\* C22 as claimed: the insert of a unit names every language column ONCE
\* only, with the text of the first segment of the unit that maps to it;
\* later segments of the column do not appear in the insert.
C22_AsClaimed ==
  LET units == HandledUnits
  IN  \A k \in 1..Len(queries) :
        \A column \in LanguageColumnsOf(queries[k]) :
          /\ Cardinality(PositionsOf(queries[k], column)) = 1
          /\ \A n \in PositionsOf(queries[k], column) :
               queries[k].values[n]
                 = FirstSegmentOf(WrittenSegments(UnitOfPending(units, k).tu),
                                  column).content

\* the insert names, in segment order, the column of every segment written
\* for the unit, each with the text of its segment, and then the two fixed
\* columns
NamesEverySegment(query, written) ==
  /\ Len(query.columns) = Len(written) + 2
  /\ \A m \in 1..Len(written) :
       /\ query.columns[m] = ColumnOf(written[m].lang)
       /\ query.values[m] = written[m].content

\* C22 amended: the insert of a unit names a language column once for EVERY
\* eligible segment that maps to it, in segment order and each with the text
\* of its segment: later duplicates do appear in the operation.  The row the
\* insert stores carries, in each column, the text of the first such segment
\* only: a later duplicate does not overwrite it.
C22_FirstSegmentWins ==
  LET units == HandledUnits
  IN  /\ Len(PersistedRows) + Len(queries) = Len(units)
      /\ \A k \in 1..Len(queries) :
           /\ NamesEverySegment(queries[k],
                                WrittenSegments(UnitOfPending(units, k).tu))
           /\ FirstSegmentsStored(PendingRows[k],
                                  WrittenSegments(UnitOfPending(units, k).tu))
      /\ \A k \in 1..Len(PersistedRows) :
           FirstSegmentsStored(PersistedRows[k], WrittenSegments(units[k].tu))

\* the insert of the unit with the segments EN-GB "a", en_gb "b", EN-GB ""
\* is pending: it names en_gb three times, and the row it stores has "a"
C22_Witness ==
  /\ Len(queries) = 1
  /\ PersistedRows = <<>>
  /\ HasDuplicateColumn(WrittenSegments(HandledUnits[1].tu))
  /\ queries[1].columns
       = <<ColumnOf(EN_GB), ColumnOf(EN_GB), ColumnOf(EN_GB),
           SEQUENTIAL_NUMBER, DOCUMENT_ID>>
  /\ SubSeq(queries[1].values, 1, 3) = << <<"a">>, <<"b">>, <<>> >>
  /\ PendingRows[1].cells = (ColumnOf(EN_GB) :> <<"a">>)

(***************************************************************************)
(* C23                                                                     *)
(***************************************************************************)
\* handle was called for the unit of the record and rejected it for the
\* language code of one of its eligible segments
RejectedForCode(rec) ==
  /\ rec.forwarded
  /\ ~rec.ok
  /\ ~Unnamed(rec.tu)
  /\ \E el \in Range(WrittenSegments(rec.tu)) : ~MatchesPattern(el.lang)

\* the columns of the segments written for the units
ColumnsOfUnits(units) ==
  UNION {SegmentColumns(WrittenSegments(units[k].tu)) : k \in 1..Len(units)}

\* C23: when handle has rejected a unit for an invalid language code, the
\* unit has left nothing behind: the documents rows and the cached document
\* ids are those of the units handled before it, the language columns of the
\* table and of the registry are columns of segments of those units, and the
\* inserts, pending or executed, are theirs, one for each.
C23_AsClaimed ==
  \A k \in 1..Len(log) :
    RejectedForCode(log[k]) =>
      LET units == HandledUnits
      IN  /\ {conn.documents[n].name : n \in 1..Len(conn.documents)}
               \subseteq NamesOf(units)
          /\ DOMAIN docs_in_db \subseteq NamesOf(units)
          /\ Range(conn.tu_columns) \subseteq ColumnsOfUnits(units)
          /\ Range(language_columns_in_db) \subseteq ColumnsOfUnits(units)
          /\ Len(PersistedRows) + Len(queries) = Len(units)

(***************************************************************************)
(* C24                                                                     *)
(***************************************************************************)
\* C24 as claimed: once a commit has failed, none of the rows of its batch is
\* stored at any later point of the run: no transaction with a statement is
\* committed after it, the drop of the handler included.
C24_AsClaimed ==
  \A n \in 1..Len(conn.aborted) :
    \A m \in (conn.aborted[n].after + 1)..Len(conn.committed) :
      conn.committed[m] = 0

\* the units whose insert was built: the handled ones, and the last one when
\* handle failed for it after the insert was pushed, in the commit
UnitsWithInsert ==
  SelectSeq(log, LAMBDA rec : rec.forwarded
                              /\ (rec.ok \/ (conn.aborted # <<>>
                                             /\ ~Unnamed(rec.tu)
                                             /\ ~RejectedForCode(rec))))

\* C24 amended: a batch is all-or-nothing, but a failed commit is retried
\* once, whole, by the drop of the handler.  The table holds exactly the rows
\* of the transactions committed; a failed commit stores nothing, leaves the
\* batch pending and ends the run.  When the failure was in handle or in the
\* caller's commit, the drop of the handler on the way out commits the same
\* batch once more: if that commit succeeds every row of the batch is stored
\* and the batch is empty, if it fails too none is stored and the process
\* aborts (a failure in handle is always followed by this second commit).
\* No part of a batch is ever stored without the rest.
C24_FailedBatchIsRetriedWholeByDrop ==
  /\ Len(PersistedRows) = Sum(conn.committed)
  /\ Len(PersistedRows) + Len(queries) = Len(UnitsWithInsert)
  /\ conn.aborted # <<>> =>
       /\ pc = "failed"
       /\ Len(conn.aborted) <= 2
       /\ \A n \in 1..Len(conn.aborted) : conn.aborted[n] = conn.aborted[1]
       /\ Len(conn.committed) <= conn.aborted[1].after + 1
       /\ IF Len(conn.committed) = conn.aborted[1].after + 1
          THEN /\ Len(conn.aborted) = 1
               /\ conn.committed[Len(conn.committed)] = conn.aborted[1].size
               /\ queries = <<>>
          ELSE Len(queries) = conn.aborted[1].size
       /\ Len(UnitsWithInsert) > Len(HandledUnits) =>
            \/ Len(conn.aborted) = 2
            \/ Len(conn.committed) = conn.aborted[1].after + 1

\* the commit handle made for the second unit failed with the batch of two
\* inserts, and the drop of the handler then committed the two rows
C24_Witness ==
  /\ pc = "failed"
  /\ TRANSACTION_SIZE = 1
  /\ Len(log) = 2
  /\ ~log[2].ok
  /\ conn.aborted = <<[size |-> 2, after |-> 0]>>
  /\ conn.committed = <<2>>
  /\ Len(PersistedRows) = 2
  /\ queries = <<>>

(***************************************************************************)
(* C25                                                                     *)
(***************************************************************************)
\* the rows before the k-th that reference the document row the k-th references
EarlierRowsOfDocument(rows, k) ==
  {j \in 1..(k - 1) : rows[j].document_id = rows[k].document_id}

\* C25 as claimed: without a filter the stored rows that reference one
\* documents row carry, in the order of their inserts, the numbers 0, 1, ..:
\* the number of a row is the count of the earlier rows of its documents row.
C25_AsClaimed ==
  requested_langs = Unlimited =>
    \A k \in 1..Len(PersistedRows) :
      PersistedRows[k].sequential_number
        = Some(Cardinality(EarlierRowsOfDocument(PersistedRows, k)))

\* the units before the k-th that were read from the entry of the k-th
EarlierUnitsOfEntry(units, k) ==
  {j \in 1..(k - 1) : units[j].entry = units[k].entry}

\* the units of the entry of the k-th unit are the units of its document name
EntryIsDocument(units, k) ==
  \A j \in 1..Len(units) :
    (units[j].entry = units[k].entry)
      <=> (doc_name(units[j].tu) = doc_name(units[k].tu))

\* C25 amended: without a filter the number of a stored row is the position
\* of its unit within the body of the ENTRY (the TMX file) the unit was read
\* from, whatever document names the units carry.  Two rows that reference
\* one documents row and come from one entry never share a number, and where
\* the units of an entry are exactly the units of one document name the rows
\* of that documents row carry 0, 1, .., k-1 in the order of their inserts.
C25_SequenceNumberIsPositionInEntry ==
  requested_langs = Unlimited =>
    LET units == HandledUnits
    IN  /\ Len(PersistedRows) <= Len(units)
        /\ \A k \in 1..Len(PersistedRows) :
             /\ PersistedRows[k].sequential_number
                  = Some(Cardinality(EarlierUnitsOfEntry(units, k)))
             /\ \A j \in EarlierRowsOfDocument(PersistedRows, k) :
                  units[j].entry = units[k].entry
                    => PersistedRows[j].sequential_number
                         # PersistedRows[k].sequential_number
             /\ EntryIsDocument(units, k) =>
                  PersistedRows[k].sequential_number
                    = Some(Cardinality(EarlierRowsOfDocument(PersistedRows, k)))

\* two entries with one unit of the document D2 each: the two stored rows
\* reference the one documents row and both carry the number 0
C25_Witness ==
  /\ requested_langs = Unlimited
  /\ Len(PersistedRows) = 2
  /\ Len(HandledUnits) = 2
  /\ HandledUnits[1].entry # HandledUnits[2].entry
  /\ PersistedRows[1].document_id = PersistedRows[2].document_id
  /\ PersistedRows[1].sequential_number = Some(0)
  /\ PersistedRows[2].sequential_number = Some(0)

(***************************************************************************)
(* C26                                                                     *)
(***************************************************************************)
\* the documents rows with the name
DocumentsNamed(name) ==
  {n \in 1..Len(conn.documents) : conn.documents[n].name = name}

\* the documents rows with the id
DocumentsWithId(id) ==
  {n \in 1..Len(conn.documents) : conn.documents[n].id = id}

\* the cache has the name exactly when documents has a row of the name; that
\* row is the only one of the name, the only one of its id, and its id is the
\* cached one
CacheIsDocuments ==
  /\ DOMAIN docs_in_db = {conn.documents[n].name : n \in 1..Len(conn.documents)}
  /\ \A name \in DOMAIN docs_in_db :
       /\ Cardinality(DocumentsNamed(name)) = 1
       /\ \A n \in DocumentsNamed(name) :
            /\ conn.documents[n].id = docs_in_db[name]
            /\ DocumentsWithId(conn.documents[n].id) = {n}

\* the row of every unit whose insert was built, stored or pending, references
\* the one documents row that has the document name of the unit
RowsReferenceTheirDocument ==
  LET units == UnitsWithInsert
      rows == AllRows
  IN  /\ Len(rows) = Len(units)
      /\ \A k \in 1..Len(rows) :
           k <= Len(units) =>
             /\ doc_name(units[k].tu).some
             /\ \E n \in DocumentsNamed(doc_name(units[k].tu).value) :
                  /\ rows[k].document_id = Some(conn.documents[n].id)
                  /\ DocumentsWithId(conn.documents[n].id) = {n}

\* the unit read at position k of the log was handed to handle with the name
NamedCall(k, name) == log[k].forwarded /\ doc_name(log[k].tu) = Some(name)

\* the first unit handed to handle with the name
FirstCallNamed(name) ==
  CHOOSE k \in 1..Len(log) :
    NamedCall(k, name) /\ \A j \in 1..(k - 1) : ~NamedCall(j, name)

\* the names of the units handed to handle before the k-th unit read
NamesBefore(k) ==
  {doc_name(log[j].tu).value :
     j \in {m \in 1..(k - 1) : log[m].forwarded /\ doc_name(log[m].tu).some}}

\* C26: in every reachable state, of a run in which SQLite refuses commits or
\* not, the cache of document ids maps a name to an id exactly when documents
\* holds exactly one row with that name and that id; the cached id of a name
\* is fixed by the units read up to the first one of that name (it is one more
\* than the number of names handed to handle before it), so it never changes
\* afterwards; and the document reference of every row, stored or pending, is
\* the id of the one documents row whose name is the document name of the
\* row's unit.
C26_CacheAndReferences ==
  /\ CacheIsDocuments
  /\ RowsReferenceTheirDocument
  /\ \A name \in DOMAIN docs_in_db :
       /\ \E k \in 1..Len(log) : NamedCall(k, name)
       /\ docs_in_db[name] = 1 + Cardinality(NamesBefore(FirstCallNamed(name)))

\* two units of two documents were handled: D2 was cached first with the id
\* 1, D1 second with the id 2, and each row references its document
C26_Witness ==
  /\ DOMAIN docs_in_db = {"D1", "D2"}
  /\ docs_in_db["D2"] = 1 /\ docs_in_db["D1"] = 2
  /\ conn.documents = <<[id |-> 1, name |-> "D2"], [id |-> 2, name |-> "D1"]>>
  /\ Len(AllRows) = 2
  /\ AllRows[1].document_id = Some(1)
  /\ AllRows[2].document_id = Some(2)

(***************************************************************************)
(* C27                                                                     *)
(***************************************************************************)
\* a step in which the flat-script writer is dropped with an empty batch
DropOfEmptyBatch ==
  /\ sql_handler.state = "live"
  /\ sql_handler'.state \in {"dropped", "failed"}
  /\ sql_handler'.handled = sql_handler.handled
  /\ sql_handler.incoming_batch = <<>>

\* the INSERT statements of a script
InsertsOf(script) == {n \in 1..Len(script) : script[n].kind = "INSERT"}

\* C27: when the flat-script writer is dropped with an empty batch (no unit
\* was handled, or the number of units handled is a multiple of INSERT_SIZE)
\* it writes no further statement, and every INSERT statement of the script
\* has at least one tuple of values and at least one language column.
C27_AsClaimed ==
  [][DropOfEmptyBatch =>
       /\ sql_handler'.inserts_file = sql_handler.inserts_file
       /\ \A n \in InsertsOf(sql_handler'.inserts_file) :
            /\ Len(sql_handler'.inserts_file[n].tuples) >= 1
            /\ Len(sql_handler'.inserts_file[n].columns) >= 1]_vars

====
